---- MODULE Spec2Model ----
(***************************************************************************)
(* Model of the rebalancing decision engine of the AI staking agents:      *)
(* RebalancingAgent (trigger evaluation, alternative ranking, suggestion   *)
(* building), RiskAssessmentAgent (risk scoring) and the checkRebalancing  *)
(* flow of StakingOrchestrator.                                            *)
(*                                                                         *)
(* Numbers.  JavaScript Numbers are modelled as exact extended rationals   *)
(* <<n, d>> (d > 0, lowest terms), with <<1, 0>> = Infinity,               *)
(* <<-1, 0>> = -Infinity and <<0, 0>> = NaN, so that a division by zero    *)
(* or a comparison with NaN behaves as it does in the code.  Binary        *)
(* rounding error of IEEE doubles is not modelled.                         *)
(*                                                                         *)
(* Units.  A yield (APY) field holds thousandths of a percent (3.2% is     *)
(* 3200), a risk score holds hundredths (2.0 is 200), an amount holds      *)
(* whole dollars, a reserve (TVL) holds millions of dollars and a          *)
(* timestamp holds hours; the operators that read a field convert it       *)
(* (Apy, Score) before computing.                                          *)
(***************************************************************************)
EXTENDS Integers, Sequences, FiniteSets, TLC

VARIABLES
    thresholds,       \* RebalancingAgent.thresholds, set by the constructor
    now,              \* the clock read by new Date(), in hours
    portfolio,        \* the portfolio handed to the agent / held by the backend
    marketPools,      \* the market pools: raw in the data agent, risk-assessed for the agent
    userPreferences,  \* the caller's preferences
    res,              \* the value returned by the last operation applied
    pc,               \* position of checkRebalancing
    calls,            \* calls issued so far, in order
    rebalanceAnalysis \* checkRebalancing's local: the analysis returned to it

vars == <<thresholds, now, portfolio, marketPools, userPreferences, res, pc, calls,
         rebalanceAnalysis>>

(***************************************************************************)
(* JavaScript Number arithmetic on extended rationals                      *)
(***************************************************************************)
Abs(x) == IF x < 0 THEN -x ELSE x

Sgn(x) == IF x < 0 THEN -1 ELSE IF x > 0 THEN 1 ELSE 0

RECURSIVE GCD(_, _)
GCD(a, b) == IF b = 0 THEN a ELSE GCD(b, a % b)

NaN == <<0, 0>>

PosInf == <<1, 0>>

NegInf == <<-1, 0>>

\* n / d in lowest terms; d = 0 gives Infinity, -Infinity or NaN by the sign of n
R(n, d) ==
    IF d = 0 THEN <<Sgn(n), 0>>
    ELSE LET g == GCD(Abs(n), Abs(d))
         IN  <<(Sgn(d) * n) \div g, Abs(d) \div g>>

Num(n) == <<n, 1>>

IsNaN(a) == a = NaN

IsFinite(a) == a[2] # 0

RNeg(a) == <<-a[1], a[2]>>

RAdd(a, b) ==
    IF IsFinite(a) /\ IsFinite(b) THEN R(a[1] * b[2] + b[1] * a[2], a[2] * b[2])
    ELSE IF IsNaN(a) \/ IsNaN(b) THEN NaN
    ELSE IF ~IsFinite(a) /\ ~IsFinite(b) THEN (IF a = b THEN a ELSE NaN)
    ELSE IF ~IsFinite(a) THEN a ELSE b

RSub(a, b) == RAdd(a, RNeg(b))

RMul(a, b) ==
    IF IsFinite(a) /\ IsFinite(b)
    THEN LET g1 == GCD(Abs(a[1]), b[2])
             g2 == GCD(Abs(b[1]), a[2])
         IN  R((a[1] \div g1) * (b[1] \div g2), (a[2] \div g2) * (b[2] \div g1))
    ELSE IF IsNaN(a) \/ IsNaN(b) THEN NaN
    ELSE IF a[1] = 0 \/ b[1] = 0 THEN NaN
    ELSE <<Sgn(a[1]) * Sgn(b[1]), 0>>

RDiv(a, b) ==
    IF IsNaN(a) \/ IsNaN(b) THEN NaN
    ELSE IF IsFinite(b)
         THEN IF b[1] = 0
              THEN <<Sgn(a[1]), 0>>
              ELSE IF IsFinite(a)
                   THEN RMul(a, R(b[2], b[1]))
                   ELSE <<a[1] * Sgn(b[1]), 0>>
         ELSE IF IsFinite(a) THEN Num(0) ELSE NaN

\* a < b; false when either side is NaN
RLt(a, b) ==
    /\ ~IsNaN(a)
    /\ ~IsNaN(b)
    /\ IF IsFinite(a) /\ IsFinite(b) THEN a[1] * b[2] < b[1] * a[2]
       ELSE IF a = b THEN FALSE
       ELSE a = NegInf \/ b = PosInf

RGt(a, b) == RLt(b, a)

RGe(a, b) == ~IsNaN(a) /\ ~IsNaN(b) /\ ~RLt(a, b)

RLe(a, b) == RGe(b, a)

RAbs(a) == <<Abs(a[1]), a[2]>>

\* Math.max(a, b)
RMax(a, b) == IF IsNaN(a) \/ IsNaN(b) THEN NaN ELSE IF RLt(a, b) THEN b ELSE a

\* Math.floor(a)
RFloor(a) == IF IsFinite(a) THEN Num(a[1] \div a[2]) ELSE a

\* x.toFixed(digits): the decimal string with that many fraction digits, held as
\* the number it denotes (ties away from zero); "NaN" and "Infinity" stay as they are
ToFixed(a, digits) ==
    IF IsFinite(a)
    THEN LET scale == 10 ^ digits
             h == (2 * Abs(a[1]) * scale + a[2]) \div (2 * a[2])
         IN  R(Sgn(a[1]) * h, scale)
    ELSE a

ToFixed2(a) == ToFixed(a, 2)

\* the template strings `${x.toFixed(2)}%` and `$${x.toFixed(2)}`
FmtPct(a) == [num |-> ToFixed2(a), unit |-> "%"]

FmtUsd(a) == [num |-> ToFixed2(a), unit |-> "$"]

\* the sign character that opens the text of a formatted number: toFixed writes
\* "-" before a negative number and nothing before any other
LeadingSign(s) == IF s.unit # "$" /\ RLt(s.num, Num(0)) THEN "-" ELSE ""

\* parseFloat(s): the leading number of the string; a string that starts with
\* "$" has none
ParseFloat(s) == IF s.unit = "$" THEN NaN ELSE s.num

\* String.prototype.toLowerCase on the names that occur
ToLowerCase(s) ==
    CASE s = "Lido" -> "lido"
      [] s = "Aave" -> "aave"
      [] s = "Frax" -> "frax"
      [] s = "OldProtocol" -> "oldprotocol"
      [] s = "Ethereum" -> "ethereum"
      [] s = "Polygon" -> "polygon"
      [] OTHER -> s

(***************************************************************************)
(* Data: positions, pools, risk assessments                                *)
(***************************************************************************)
\* a pool that carries no risk assessment (pool.risk is undefined)
NoRisk == [level |-> "undefined"]

HasRisk(pool) == pool.risk # NoRisk

\* field readers: the number a field denotes
Apy(x) == R(x, 1000)

Score(x) == R(x, 100)

\* position.initial_apy || position.initialAPY (0 stands for both absent: undefined)
InitialAPYOf(position) == IF position.initialAPY = 0 THEN NaN ELSE Apy(position.initialAPY)

\* variant: the stored initial risk score is ignored, the default 5 always used
InitialRiskOf_AlwaysDefault(position) == Num(5)

\* position.initial_risk_score || position.initialRiskScore || 5
InitialRiskOf(position) ==
    IF position.initialRiskScore = 0 THEN Num(5) ELSE Score(position.initialRiskScore)

\* pos.amount_usd || pos.amountUSD || 0
AmountOf(position) == Num(position.amountUSD)

\* parseFloat(pool.risk.score)
RiskScoreOf(pool) == Score(pool.risk.score)

\* variant: the names are compared as written, without toLowerCase
SamePool_CaseSensitive(p, q) == p.protocol = q.protocol /\ p.chain = q.chain

\* p.protocol.toLowerCase() === q.protocol.toLowerCase() && likewise for chain
SamePool(p, q) ==
    /\ ToLowerCase(p.protocol) = ToLowerCase(q.protocol)
    /\ ToLowerCase(p.chain) = ToLowerCase(q.chain)

\* currentMarketPools.find(...): index of the first pool matching the position, 0 if none
FindPool(pools, position) ==
    LET hits == {i \in 1..Len(pools) : SamePool(pools[i], position)}
    IN  IF hits = {} THEN 0 ELSE CHOOSE i \in hits : \A j \in hits : i <= j

\* variant: the last element in place of the largest
MaxOf_Last(s) == IF s = <<>> THEN Num(0) ELSE s[Len(s)]

\* Array.prototype.reduce over a sequence of Numbers with Math.max, from 0
RECURSIVE MaxOf(_)
MaxOf(s) == IF s = <<>> THEN Num(0) ELSE RMax(MaxOf(SubSeq(s, 1, Len(s) - 1)), s[Len(s)])

\* Array.prototype.reduce over a sequence of Numbers with +, from 0
RECURSIVE SumOf(_)
SumOf(s) == IF s = <<>> THEN Num(0) ELSE RAdd(SumOf(SubSeq(s, 1, Len(s) - 1)), s[Len(s)])

(***************************************************************************)
(* RebalancingAgent: constructor and the four trigger checks               *)
(***************************************************************************)
DefaultApyChangePercent == 15

DefaultRiskScoreChange == 150

DefaultTimeIntervalDays == 30

\* constructor(config): config.x || default (an absent or zero field is 0)
Constructor(config) ==
    [apyChangePercent |-> IF config.apyChangePercent = 0 THEN DefaultApyChangePercent
                          ELSE config.apyChangePercent,
     riskScoreChange |-> IF config.riskScoreChange = 0 THEN DefaultRiskScoreChange
                         ELSE config.riskScoreChange,
     timeIntervalDays |-> IF config.timeIntervalDays = 0 THEN DefaultTimeIntervalDays
                          ELSE config.timeIntervalDays]

\* Math.abs(((currentAPY - initialAPY) / initialAPY) * 100)
ChangePercent(initialAPY, currentAPY) ==
    RAbs(RMul(RDiv(RSub(currentAPY, initialAPY), initialAPY), Num(100)))

\* one iteration of the loop of checkAPYChanges: the entry pushed to `changes`
\* (fired), with the unrounded changePercent beside its string (raw)
APYChangeEntry(th, position, pools) ==
    LET k == FindPool(pools, position)
        initialAPY == InitialAPYOf(position)
        currentAPY == Apy(pools[k].apy)
        changePercent == ChangePercent(initialAPY, currentAPY)
    IN  IF k # 0 /\ RGt(changePercent, Num(th.apyChangePercent))
        THEN [fired |-> TRUE,
              protocol |-> position.protocol,
              chain |-> position.chain,
              initialAPY |-> FmtPct(initialAPY),
              currentAPY |-> FmtPct(currentAPY),
              changePercent |-> FmtPct(changePercent),
              raw |-> changePercent,
              direction |-> IF RGt(currentAPY, initialAPY) THEN "increased" ELSE "decreased"]
        ELSE [fired |-> FALSE]

checkAPYChanges(th, pf, pools) ==
    LET all == [i \in 1..Len(pf.positions) |-> APYChangeEntry(th, pf.positions[i], pools)]
        changes == SelectSeq(all, LAMBDA e : e.fired)
    IN  [triggered |-> Len(changes) > 0,
         changes |-> changes,
         maxChange |-> MaxOf([i \in 1..Len(changes) |-> changes[i].raw]),
         threshold |-> th.apyChangePercent]

\* one iteration of the loop of checkRiskChanges
RiskChangeEntry(th, position, pools) ==
    LET k == FindPool(pools, position)
        initialRisk == InitialRiskOf(position)
        currentRisk == RiskScoreOf(pools[k])
        changeAmount == RAbs(RSub(currentRisk, initialRisk))
    IN  IF k # 0 /\ HasRisk(pools[k]) /\ RGt(changeAmount, Score(th.riskScoreChange))
        THEN [fired |-> TRUE,
              protocol |-> position.protocol,
              chain |-> position.chain,
              initialRisk |-> ToFixed2(initialRisk),
              currentRisk |-> ToFixed2(currentRisk),
              changeAmount |-> ToFixed2(changeAmount),
              raw |-> changeAmount,
              direction |-> IF RGt(currentRisk, initialRisk) THEN "increased" ELSE "decreased"]
        ELSE [fired |-> FALSE]

checkRiskChanges(th, pf, pools) ==
    LET all == [i \in 1..Len(pf.positions) |-> RiskChangeEntry(th, pf.positions[i], pools)]
        changes == SelectSeq(all, LAMBDA e : e.fired)
    IN  [triggered |-> Len(changes) > 0,
         changes |-> changes,
         maxChange |-> MaxOf([i \in 1..Len(changes) |-> changes[i].raw]),
         threshold |-> th.riskScoreChange]

HoursPerDay == 24

NoDate == -1

\* variant: Math.ceil in place of Math.floor
DaysSince_RoundUp(t, date) == (t - date + HoursPerDay - 1) \div HoursPerDay

\* Math.floor((now - date) / (1000 * 60 * 60 * 24))
DaysSince(t, date) == (t - date) \div HoursPerDay

\* the reduce of checkTimeInterval: the oldest entry date, starting from now; an
\* absent entry date makes an invalid Date, which is less than nothing
RECURSIVE OldestEntry(_, _)
OldestEntry(positions, t) ==
    IF positions = <<>> THEN t
    ELSE LET oldest == OldestEntry(SubSeq(positions, 1, Len(positions) - 1), t)
             posDate == positions[Len(positions)].entryDate
         IN  IF posDate # NoDate /\ posDate < oldest THEN posDate ELSE oldest

checkTimeInterval(th, t, pf) ==
    LET lastRebalance == pf.lastRebalanceDate
        lastActionDate == IF lastRebalance # NoDate THEN lastRebalance
                          ELSE OldestEntry(pf.positions, t)
        daysSinceLastAction == DaysSince(t, lastActionDate)
    IN  [triggered |-> daysSinceLastAction >= th.timeIntervalDays,
         daysSinceLastAction |-> daysSinceLastAction,
         lastActionDate |-> lastActionDate,
         threshold |-> th.timeIntervalDays]

\* the summand of avgPortfolioAPY: pool ? pool.apy : pos.initial_apy || pos.initialAPY || 0
CurrentAPYOrInitial(position, pools) ==
    LET k == FindPool(pools, position)
    IN  IF k # 0 THEN Apy(pools[k].apy) ELSE Apy(position.initialAPY)

\* avgPortfolioAPY of checkBetterOpportunities
AvgPortfolioAPY(pf, pools) ==
    RDiv(SumOf([i \in 1..Len(pf.positions) |-> CurrentAPYOrInitial(pf.positions[i], pools)]),
         Num(Len(pf.positions)))

AssumedAvgRisk == 5

\* improvementPercent of one pool against the portfolio's risk-adjusted return
ImprovementPercent(pool, avgPortfolioAPY) ==
    LET riskAdjustedReturn == RDiv(Apy(pool.apy), RiskScoreOf(pool))
        portfolioRiskAdjustedReturn == RDiv(avgPortfolioAPY, Num(AssumedAvgRisk))
    IN  RMul(RDiv(RSub(riskAdjustedReturn, portfolioRiskAdjustedReturn),
                  portfolioRiskAdjustedReturn),
             Num(100))

MinImprovementPercent == 30

\* portfolio.positions.some(p => same protocol and chain as pool)
InPortfolio(pf, pool) == \E i \in 1..Len(pf.positions) : SamePool(pf.positions[i], pool)

\* one iteration of the loop of checkBetterOpportunities
OpportunityEntry(pf, pool, avgPortfolioAPY) ==
    LET improvementPercent == ImprovementPercent(pool, avgPortfolioAPY)
    IN  IF ~InPortfolio(pf, pool) /\ HasRisk(pool)
           /\ RGt(improvementPercent, Num(MinImprovementPercent))
        THEN [fired |-> TRUE,
              protocol |-> pool.protocol,
              chain |-> pool.chain,
              apy |-> FmtPct(Apy(pool.apy)),
              risk |-> pool.risk.level,
              riskScore |-> pool.risk.score,
              improvementPercent |-> FmtPct(improvementPercent),
              raw |-> improvementPercent]
        ELSE [fired |-> FALSE]

TopOpportunities == 3

\* opportunities.slice(0, 3)
OpportunitiesKept(opportunities) ==
    SubSeq(opportunities, 1, IF Len(opportunities) < TopOpportunities
                             THEN Len(opportunities) ELSE TopOpportunities)

checkBetterOpportunities(pf, pools) ==
    LET avgPortfolioAPY == AvgPortfolioAPY(pf, pools)
        all == [i \in 1..Len(pools) |-> OpportunityEntry(pf, pools[i], avgPortfolioAPY)]
        opportunities == SelectSeq(all, LAMBDA e : e.fired)
        totalOpportunityScore ==
            SumOf([i \in 1..Len(opportunities) |->
                      RDiv(opportunities[i].raw, Num(MinImprovementPercent))])
    IN  [triggered |-> Len(opportunities) > 0,
         opportunities |-> OpportunitiesKept(opportunities),
         score |-> totalOpportunityScore]

(***************************************************************************)
(* RebalancingAgent.checkTriggers                                          *)
(***************************************************************************)
HighApyChange == 25

HighRiskChange == 2

HighOpportunityScore == 2

\* severity and points of the apy_change trigger
ApySeverity(maxChange) == IF RGt(maxChange, Num(HighApyChange)) THEN "high" ELSE "medium"

ApyPoints(maxChange) == IF RGt(maxChange, Num(HighApyChange)) THEN 3 ELSE 2

\* severity and points of the risk_change trigger
RiskSeverity(maxChange) == IF RGt(maxChange, Num(HighRiskChange)) THEN "high" ELSE "medium"

RiskPoints(maxChange) == IF RGt(maxChange, Num(HighRiskChange)) THEN 3 ELSE 2

TimePoints == 1

\* severity and points of the better_opportunities trigger
OpportunitySeverity(score) ==
    IF RGt(score, Num(HighOpportunityScore)) THEN "high" ELSE "medium"

OpportunityPoints(score) == IF RGt(score, Num(HighOpportunityScore)) THEN 3 ELSE 2

HighSeverityScore == 6

MediumSeverityScore == 3

\* variant: 'medium' needs more than 3 points
OverallSeverity_MediumAbove3(severityScore) ==
    IF severityScore >= HighSeverityScore THEN "high"
    ELSE IF severityScore > MediumSeverityScore THEN "medium"
    ELSE "low"

\* variant: 'high' only above 6 points
OverallSeverity_Above6(severityScore) ==
    IF severityScore > 6 THEN "high"
    ELSE IF severityScore >= 3 THEN "medium"
    ELSE "low"

\* "Determine overall severity"
OverallSeverity(severityScore) ==
    IF severityScore >= HighSeverityScore THEN "high"
    ELSE IF severityScore >= MediumSeverityScore THEN "medium"
    ELSE "low"

\* variant: the verdict follows the aggregate severity instead of the trigger list
ShouldRebalance_BySeverity(triggeredFactors, severity) == severity # "low"

\* the verdict of checkTriggers: triggeredFactors.length > 0
ShouldRebalance(triggeredFactors, severity) == Len(triggeredFactors) > 0

\* the factor pushed and the points added for each check that fired
ApyFactor(apyChanges) ==
    IF apyChanges.triggered
    THEN <<[type |-> "apy_change", details |-> apyChanges,
            severity |-> ApySeverity(apyChanges.maxChange)]>>
    ELSE <<>>

ApyScore(apyChanges) ==
    IF apyChanges.triggered THEN ApyPoints(apyChanges.maxChange) ELSE 0

RiskFactor(riskChanges) ==
    IF riskChanges.triggered
    THEN <<[type |-> "risk_change", details |-> riskChanges,
            severity |-> RiskSeverity(riskChanges.maxChange)]>>
    ELSE <<>>

RiskScore(riskChanges) ==
    IF riskChanges.triggered THEN RiskPoints(riskChanges.maxChange) ELSE 0

TimeFactor(timeCheck) ==
    IF timeCheck.triggered
    THEN <<[type |-> "time_interval", details |-> timeCheck, severity |-> "low"]>>
    ELSE <<>>

TimeScore(timeCheck) == IF timeCheck.triggered THEN TimePoints ELSE 0

OpportunityFactor(opportunities) ==
    IF opportunities.triggered
    THEN <<[type |-> "better_opportunities", details |-> opportunities,
            severity |-> OpportunitySeverity(opportunities.score)]>>
    ELSE <<>>

OpportunityScore(opportunities) ==
    IF opportunities.triggered THEN OpportunityPoints(opportunities.score) ELSE 0

\* the value returned by checkTriggers
TriggerVerdict(triggeredFactors, severity, severityScore) ==
    [shouldRebalance |-> ShouldRebalance(triggeredFactors, severity),
     triggeredFactors |-> triggeredFactors,
     severity |-> severity,
     severityScore |-> severityScore]

\* the four checks' results put together, in the order the checks run
CombineChecks(apyChanges, riskChanges, timeCheck, opportunities) ==
    TriggerVerdict(ApyFactor(apyChanges) \o RiskFactor(riskChanges)
                       \o TimeFactor(timeCheck) \o OpportunityFactor(opportunities),
                   OverallSeverity(ApyScore(apyChanges) + RiskScore(riskChanges)
                                       + TimeScore(timeCheck)
                                       + OpportunityScore(opportunities)),
                   ApyScore(apyChanges) + RiskScore(riskChanges) + TimeScore(timeCheck)
                       + OpportunityScore(opportunities))

checkTriggers(th, t, pf, pools) ==
    CombineChecks(checkAPYChanges(th, pf, pools), checkRiskChanges(th, pf, pools),
                  checkTimeInterval(th, t, pf), checkBetterOpportunities(pf, pools))

(***************************************************************************)
(* RebalancingAgent: underperformers, alternatives, suggestions, impact    *)
(***************************************************************************)
\* currentMarketPools.reduce((sum, p) => sum + p.apy, 0) / currentMarketPools.length
AvgMarketAPY(pools) ==
    RDiv(SumOf([k \in 1..Len(pools) |-> Apy(pools[k].apy)]), Num(Len(pools)))

\* variant: any yield below the market average counts as underperforming
IsUnderperforming_BelowAverage(pool, pools) ==
    RLt(Apy(pool.apy), AvgMarketAPY(pools))

\* currentPool.apy < avgMarketAPY * 0.7
IsUnderperforming(pool, pools) ==
    RLt(Apy(pool.apy), RMul(AvgMarketAPY(pools), R(7, 10)))

\* one iteration of the loop of identifyUnderperformers
UnderperformerEntry(position, pools) ==
    LET k == FindPool(pools, position)
    IN  IF k # 0 /\ IsUnderperforming(pools[k], pools)
        THEN [fired |-> TRUE,
              position |-> position,
              currentPool |-> pools[k],
              currentAPY |-> Apy(pools[k].apy),
              marketAvgAPY |-> AvgMarketAPY(pools)]
        ELSE [fired |-> FALSE]

identifyUnderperformers(pf, pools) ==
    SelectSeq([i \in 1..Len(pf.positions) |-> UnderperformerEntry(pf.positions[i], pools)],
              LAMBDA e : e.fired)

\* userPreferences?.riskTolerance || portfolio.target_risk_tolerance || 'medium'
RiskToleranceOf(pf, prefs) ==
    IF prefs.riskTolerance # "undefined" THEN prefs.riskTolerance
    ELSE IF pf.targetRiskTolerance # "undefined" THEN pf.targetRiskTolerance
    ELSE "medium"

\* variant: medium tolerance also accepts 'very-low'
IsSuitable_MediumTakesVeryLow(pool, riskTolerance) ==
    /\ HasRisk(pool)
    /\ IF riskTolerance = "low" THEN pool.risk.level \in {"low", "very-low"}
       ELSE IF riskTolerance = "medium" THEN pool.risk.level \in {"very-low", "low", "medium"}
       ELSE TRUE

\* the filter of findBetterAlternatives
IsSuitable(pool, riskTolerance) ==
    /\ HasRisk(pool)
    /\ IF riskTolerance = "low" THEN pool.risk.level \in {"low", "very-low"}
       ELSE IF riskTolerance = "medium" THEN pool.risk.level \in {"low", "medium"}
       ELSE TRUE

\* pool.apy / parseFloat(pool.risk.score)
RiskAdjustedReturn(pool) == RDiv(Apy(pool.apy), RiskScoreOf(pool))

\* .sort((a, b) => b.riskAdjustedReturn - a.riskAdjustedReturn): a stable sort,
\* descending; each element is inserted behind those it does not precede
RECURSIVE SortByReturn(_)
SortByReturn(s) ==
    IF s = <<>> THEN <<>>
    ELSE LET sorted == SortByReturn(SubSeq(s, 1, Len(s) - 1))
             x == s[Len(s)]
             k == Cardinality({i \in 1..Len(sorted) :
                     ~RGt(x.riskAdjustedReturn, sorted[i].riskAdjustedReturn)})
         IN  SubSeq(sorted, 1, k) \o <<x>> \o SubSeq(sorted, k + 1, Len(sorted))

TopAlternatives == 5

\* .slice(0, 5)
AlternativesKept(ranked) ==
    SubSeq(ranked, 1, IF Len(ranked) < TopAlternatives THEN Len(ranked) ELSE TopAlternatives)

findBetterAlternatives(pf, pools, prefs) ==
    LET riskTolerance == RiskToleranceOf(pf, prefs)
        suitablePools == SelectSeq(pools, LAMBDA pool : IsSuitable(pool, riskTolerance))
        mapped == [k \in 1..Len(suitablePools) |->
                      [protocol |-> suitablePools[k].protocol,
                       chain |-> suitablePools[k].chain,
                       apy |-> suitablePools[k].apy,
                       tvl |-> suitablePools[k].tvl,
                       risk |-> suitablePools[k].risk,
                       riskAdjustedReturn |-> RiskAdjustedReturn(suitablePools[k])]]
    IN  AlternativesKept(SortByReturn(mapped))

\* variant: the thresholds are reached rather than exceeded
calculatePriority_AtLeast(underperformer, betterOption) ==
    LET apyImprovement == RSub(Apy(betterOption.apy), underperformer.currentAPY)
        amount == AmountOf(underperformer.position)
    IN  IF RGe(amount, Num(5000)) /\ RGe(apyImprovement, Num(2)) THEN "high"
        ELSE IF RGe(amount, Num(2000)) /\ RGe(apyImprovement, R(3, 2)) THEN "high"
        ELSE IF RGe(apyImprovement, Num(3)) THEN "high"
        ELSE IF RGe(amount, Num(1000)) /\ RGe(apyImprovement, Num(1)) THEN "medium"
        ELSE IF RGe(apyImprovement, R(3, 2)) THEN "medium"
        ELSE "low"

\* variant: the amount-dependent 'medium' rule applies to small positions only
calculatePriority_SmallOnly(underperformer, betterOption) ==
    LET apyImprovement == RSub(Apy(betterOption.apy), underperformer.currentAPY)
        amount == AmountOf(underperformer.position)
    IN  IF RGt(amount, Num(5000)) /\ RGt(apyImprovement, Num(2)) THEN "high"
        ELSE IF RGt(amount, Num(2000)) /\ RGt(apyImprovement, R(3, 2)) THEN "high"
        ELSE IF RGt(apyImprovement, Num(3)) THEN "high"
        ELSE IF RLe(amount, Num(1000)) /\ RGt(apyImprovement, Num(1)) THEN "medium"
        ELSE IF RGt(apyImprovement, R(3, 2)) THEN "medium"
        ELSE "low"

\* calculatePriority(underperformer, betterOption)
calculatePriority(underperformer, betterOption) ==
    LET apyImprovement == RSub(Apy(betterOption.apy), underperformer.currentAPY)
        amount == AmountOf(underperformer.position)
    IN  IF RGt(amount, Num(5000)) /\ RGt(apyImprovement, Num(2)) THEN "high"
        ELSE IF RGt(amount, Num(2000)) /\ RGt(apyImprovement, R(3, 2)) THEN "high"
        ELSE IF RGt(apyImprovement, Num(3)) THEN "high"
        ELSE IF RGt(amount, Num(1000)) /\ RGt(apyImprovement, Num(1)) THEN "medium"
        ELSE IF RGt(apyImprovement, R(3, 2)) THEN "medium"
        ELSE "low"

\* calculateAnnualizedGain(amount, currentAPY, newAPY)
calculateAnnualizedGain(amount, currentAPY, newAPY) ==
    FmtUsd(RDiv(RMul(amount, RSub(newAPY, currentAPY)), Num(100)))

\* formatTVL(tvl): the value in billions or millions, two fraction digits
formatTVL(tvl) ==
    IF tvl > 1000
    THEN [num |-> ToFixed2(R(tvl, 1000)), unit |-> "$B"]
    ELSE [num |-> ToFixed2(Num(tvl)), unit |-> "$M"]

\* underperformer.currentPool?.risk?.level || fallback
CurrentRiskLevel(underperformer, fallback) ==
    IF HasRisk(underperformer.currentPool) THEN underperformer.currentPool.risk.level
    ELSE fallback

\* variant: the best-ranked alternative is taken whatever its risk level
FindBetterOption_TopRanked(alternatives, underperformer) ==
    IF alternatives = <<>> THEN 0 ELSE 1

\* alternatives.find(alt => alt.risk.level === currentRisk): its index, 0 if none
FindBetterOption(alternatives, underperformer) ==
    LET currentRisk == CurrentRiskLevel(underperformer, "medium")
        hits == {k \in 1..Len(alternatives) : alternatives[k].risk.level = currentRisk}
    IN  IF hits = {} THEN 0 ELSE CHOOSE k \in hits : \A j \in hits : k <= j

\* one iteration of the pairing loop of generateRebalanceSuggestions
RebalanceSuggestion(underperformer, alternatives) ==
    LET k == FindBetterOption(alternatives, underperformer)
        betterOption == alternatives[k]
    IN  IF k # 0
        THEN [fired |-> TRUE,
              action |-> "rebalance",
              from |-> [protocol |-> underperformer.position.protocol,
                        chain |-> underperformer.position.chain,
                        currentAPY |-> FmtPct(underperformer.currentAPY),
                        risk |-> CurrentRiskLevel(underperformer, "unknown"),
                        amountUSD |-> underperformer.position.amountUSD],
              to |-> [protocol |-> betterOption.protocol,
                      chain |-> betterOption.chain,
                      apy |-> FmtPct(Apy(betterOption.apy)),
                      risk |-> betterOption.risk.level,
                      tvl |-> formatTVL(betterOption.tvl)],
              expectedImprovement |->
                  [apyIncrease |-> FmtPct(RSub(Apy(betterOption.apy),
                                               underperformer.currentAPY)),
                   annualizedGain |->
                       calculateAnnualizedGain(AmountOf(underperformer.position),
                                               underperformer.currentAPY,
                                               Apy(betterOption.apy))],
              priority |-> calculatePriority(underperformer, betterOption)]
        ELSE [fired |-> FALSE]

\* portfolio.positions.reduce((sum, pos) => sum + (pos.amount_usd || pos.amountUSD || 0), 0)
TotalValue(pf) == SumOf([i \in 1..Len(pf.positions) |-> AmountOf(pf.positions[i])])

\* Math.max(...amounts); -Infinity for no arguments
RECURSIVE MaxPosition(_)
MaxPosition(positions) ==
    IF positions = <<>> THEN NegInf
    ELSE RMax(MaxPosition(SubSeq(positions, 1, Len(positions) - 1)),
              AmountOf(positions[Len(positions)]))

MaxConcentrationPercent == 60

\* variant: a concentration of exactly the limit already counts as too concentrated
checkDiversification_AtLimit(pf) ==
    LET totalValue == TotalValue(pf)
        maxPosition == MaxPosition(pf.positions)
        concentration == RMul(RDiv(maxPosition, totalValue), Num(100))
        uniqueProtocols == {ToLowerCase(pf.positions[i].protocol) :
                               i \in 1..Len(pf.positions)}
    IN  IF RGe(concentration, Num(MaxConcentrationPercent))
        THEN [needed |-> TRUE,
              reason |-> "Portfolio too concentrated",
              concentration |-> ToFixed(concentration, 0),
              recommendation |-> "Consider splitting into 2-3 positions for better risk management",
              suggestedAllocation |-> "40-30-30 split"]
        ELSE IF Cardinality(uniqueProtocols) = 1 /\ Len(pf.positions) > 1
        THEN [needed |-> TRUE,
              reason |-> "All positions in same protocol",
              recommendation |-> "Diversify across multiple protocols to reduce protocol risk"]
        ELSE [needed |-> FALSE]

checkDiversification(pf) ==
    LET totalValue == TotalValue(pf)
        maxPosition == MaxPosition(pf.positions)
        concentration == RMul(RDiv(maxPosition, totalValue), Num(100))
        uniqueProtocols == {ToLowerCase(pf.positions[i].protocol) :
                               i \in 1..Len(pf.positions)}
    IN  IF RGt(concentration, Num(MaxConcentrationPercent))
        THEN [needed |-> TRUE,
              reason |-> "Portfolio too concentrated",
              concentration |-> ToFixed(concentration, 0),
              recommendation |-> "Consider splitting into 2-3 positions for better risk management",
              suggestedAllocation |-> "40-30-30 split"]
        ELSE IF Cardinality(uniqueProtocols) = 1 /\ Len(pf.positions) > 1
        THEN [needed |-> TRUE,
              reason |-> "All positions in same protocol",
              recommendation |-> "Diversify across multiple protocols to reduce protocol risk"]
        ELSE [needed |-> FALSE]

\* priorityOrder = { high: 3, medium: 2, low: 1 }
PriorityOrder(priority) ==
    CASE priority = "high" -> 3
      [] priority = "medium" -> 2
      [] priority = "low" -> 1

\* variant: a suggestion is placed before the earlier ones of its own priority
RECURSIVE SortByPriority_LatestFirst(_)
SortByPriority_LatestFirst(s) ==
    IF s = <<>> THEN <<>>
    ELSE LET sorted == SortByPriority_LatestFirst(SubSeq(s, 1, Len(s) - 1))
             x == s[Len(s)]
             k == Cardinality({i \in 1..Len(sorted) :
                     PriorityOrder(x.priority) < PriorityOrder(sorted[i].priority)})
         IN  SubSeq(sorted, 1, k) \o <<x>> \o SubSeq(sorted, k + 1, Len(sorted))

\* suggestions.sort((a, b) => priorityOrder[b.priority] - priorityOrder[a.priority]):
\* a stable sort, descending
RECURSIVE SortByPriority(_)
SortByPriority(s) ==
    IF s = <<>> THEN <<>>
    ELSE LET sorted == SortByPriority(SubSeq(s, 1, Len(s) - 1))
             x == s[Len(s)]
             k == Cardinality({i \in 1..Len(sorted) :
                     PriorityOrder(x.priority) <= PriorityOrder(sorted[i].priority)})
         IN  SubSeq(sorted, 1, k) \o <<x>> \o SubSeq(sorted, k + 1, Len(sorted))

generateRebalanceSuggestions(pf, pools, prefs) ==
    LET underperformers == identifyUnderperformers(pf, pools)
        alternatives == findBetterAlternatives(pf, pools, prefs)
        rebalances == SelectSeq([i \in 1..Len(underperformers) |->
                                    RebalanceSuggestion(underperformers[i], alternatives)],
                                LAMBDA e : e.fired)
        diversificationSuggestion == checkDiversification(pf)
        suggestions == IF diversificationSuggestion.needed
                       THEN Append(rebalances, [action |-> "diversify",
                                                details |-> diversificationSuggestion,
                                                priority |-> "medium"])
                       ELSE rebalances
    IN  SortByPriority(suggestions)

\* (pos.initial_apy || pos.initialAPY || 0) of estimateImpact
InitialAPYOrZero(position) == Apy(position.initialAPY)

\* one iteration of the loop of estimateImpact: newGain - currentGain
GainDelta(suggestion) ==
    LET amount == Num(suggestion.from.amountUSD)
        currentGain == RDiv(RMul(amount, ParseFloat(suggestion.from.currentAPY)), Num(100))
        newGain == RDiv(RMul(amount, ParseFloat(suggestion.to.apy)), Num(100))
    IN  RSub(newGain, currentGain)

estimateImpact(pf, suggestions) ==
    LET rebalanceSuggestions == SelectSeq(suggestions, LAMBDA s : s.action = "rebalance")
        totalCurrentAPY ==
            SumOf([i \in 1..Len(pf.positions) |->
                      RDiv(RMul(AmountOf(pf.positions[i]), InitialAPYOrZero(pf.positions[i])),
                           Num(100))])
        totalNewAPY ==
            RAdd(totalCurrentAPY,
                 SumOf([j \in 1..Len(rebalanceSuggestions) |->
                           GainDelta(rebalanceSuggestions[j])]))
        totalValue == TotalValue(pf)
    IN  [currentAnnualReturn |-> FmtUsd(totalCurrentAPY),
         projectedAnnualReturn |-> FmtUsd(totalNewAPY),
         additionalReturn |-> FmtUsd(RSub(totalNewAPY, totalCurrentAPY)),
         improvementPercent |->
             FmtPct(RMul(RDiv(RSub(totalNewAPY, totalCurrentAPY), totalCurrentAPY),
                         Num(100))),
         portfolioValue |-> FmtUsd(totalValue)]

summarizePortfolio(pf) ==
    LET totalValue == TotalValue(pf)
    IN  [totalValue |-> FmtUsd(totalValue),
         positionCount |-> Len(pf.positions),
         positions |->
             [i \in 1..Len(pf.positions) |->
                 [protocol |-> pf.positions[i].protocol,
                  chain |-> pf.positions[i].chain,
                  amount |-> FmtUsd(AmountOf(pf.positions[i])),
                  allocation |->
                      [num |-> ToFixed(RMul(RDiv(AmountOf(pf.positions[i]), totalValue),
                                            Num(100)), 1),
                       unit |-> "%"]]]]

\* now + thresholds.timeIntervalDays days
calculateNextCheckDate(th, t) == t + th.timeIntervalDays * HoursPerDay

\* variant: a verdict of low severity is treated as no action
NoActionNeeded_WhenLow(triggers) == triggers.severity = "low"

\* if (!triggers.shouldRebalance)
NoActionNeeded(triggers) == ~triggers.shouldRebalance

\* the value returned when no rebalancing is needed
NoActionResult(th, t, triggers) ==
    [shouldRebalance |-> FALSE,
     triggers |-> triggers.triggeredFactors,
     message |-> "Portfolio is well-balanced. No rebalancing needed at this time.",
     nextCheckDate |-> calculateNextCheckDate(th, t)]

\* the value returned with the suggestions generated
ActionResult(th, t, pf, triggers, suggestions) ==
    [shouldRebalance |-> TRUE,
     triggers |-> triggers.triggeredFactors,
     severity |-> triggers.severity,
     currentPortfolio |-> summarizePortfolio(pf),
     suggestions |-> suggestions,
     estimatedImpact |-> estimateImpact(pf, suggestions),
     nextCheckDate |-> calculateNextCheckDate(th, t)]

\* analyzePortfolio once checkTriggers has returned
AnalyzeWith(th, t, pf, pools, prefs, triggers) ==
    IF NoActionNeeded(triggers)
    THEN NoActionResult(th, t, triggers)
    ELSE ActionResult(th, t, pf, triggers, generateRebalanceSuggestions(pf, pools, prefs))

analyzePortfolio(th, t, pf, pools, prefs) ==
    AnalyzeWith(th, t, pf, pools, prefs, checkTriggers(th, t, pf, pools))

\* the methods analyzePortfolio runs, in order
analyzePortfolioSteps(th, t, pf, pools) ==
    IF NoActionNeeded(checkTriggers(th, t, pf, pools))
    THEN <<"checkTriggers", "calculateNextCheckDate">>
    ELSE <<"checkTriggers", "generateRebalanceSuggestions", "summarizePortfolio",
           "estimateImpact", "calculateNextCheckDate">>

(***************************************************************************)
(* RiskAssessmentAgent                                                     *)
(***************************************************************************)
\* tvl in millions of dollars
assessTVLRisk(tvl) ==
    IF tvl > 10000 THEN 1
    ELSE IF tvl > 5000 THEN 2
    ELSE IF tvl > 1000 THEN 3
    ELSE IF tvl > 500 THEN 4
    ELSE IF tvl > 100 THEN 5
    ELSE IF tvl > 50 THEN 6
    ELSE IF tvl > 10 THEN 7
    ELSE 9

\* apy in thousandths of a percent
assessAPYRisk(apy) ==
    IF apy < 5000 THEN 2
    ELSE IF apy < 10000 THEN 3
    ELSE IF apy < 20000 THEN 5
    ELSE IF apy < 50000 THEN 7
    ELSE 9

\* String.prototype.includes on the names that occur: none of them contains
\* another as a proper substring
Includes(s, part) == s = part

lowRiskProtocols == {"lido", "rocket-pool", "aave", "compound", "makerdao"}

mediumRiskProtocols == {"frax", "curve", "convex", "yearn", "stakewise"}

assessProtocolRisk(protocol) ==
    LET protocolLower == ToLowerCase(protocol)
    IN  IF \E p \in lowRiskProtocols : Includes(protocolLower, p) THEN 2
        ELSE IF \E p \in mediumRiskProtocols : Includes(protocolLower, p) THEN 4
        ELSE 6

assessChainRisk(chain) ==
    LET chainLower == ToLowerCase(chain)
    IN  IF Includes(chainLower, "ethereum") THEN 1
        ELSE IF Includes(chainLower, "polygon") \/ Includes(chainLower, "arbitrum") THEN 2
        ELSE IF Includes(chainLower, "bsc") \/ Includes(chainLower, "avalanche") THEN 3
        ELSE 5

getRiskLevel(score) ==
    IF RLe(score, R(5, 2)) THEN "very-low"
    ELSE IF RLe(score, R(7, 2)) THEN "low"
    ELSE IF RLe(score, Num(5)) THEN "medium"
    ELSE IF RLe(score, Num(7)) THEN "high"
    ELSE "very-high"

\* assessRisk(pool): the weighted total; score is totalScore.toFixed(2), kept in
\* hundredths
assessRisk(pool) ==
    LET tvlScore == assessTVLRisk(pool.tvl)
        apyScore == assessAPYRisk(pool.apy)
        protocolScore == assessProtocolRisk(pool.protocol)
        chainScore == assessChainRisk(pool.chain)
        totalScore == RAdd(RAdd(RMul(Num(tvlScore), R(3, 10)), RMul(Num(apyScore), R(15, 100))),
                           RAdd(RMul(Num(protocolScore), R(25, 100)),
                                RMul(Num(chainScore), R(2, 10))))
        fixed == ToFixed2(totalScore)
    IN  [score |-> (fixed[1] * 100) \div fixed[2],
         level |-> getRiskLevel(totalScore)]

\* marketData.pools.map(pool => ({ ...pool, risk: this.riskAgent.assessRisk(pool) }))
PoolsWithRisk(pools) ==
    [k \in 1..Len(pools) |->
        [protocol |-> pools[k].protocol,
         chain |-> pools[k].chain,
         apy |-> pools[k].apy,
         tvl |-> pools[k].tvl,
         risk |-> assessRisk(pools[k])]]

(***************************************************************************)
(* Inputs and the operations applied to them                               *)
(***************************************************************************)
\* all sequences over S of length at most n
SeqUpTo(S, n) == UNION {[1..k -> S] : k \in 0..n}

Clock == {2400}

Days(d) == d * HoursPerDay

NoConfig == [apyChangePercent |-> 0, riskScoreChange |-> 0, timeIntervalDays |-> 0]

NoResult == [op |-> "none"]

\* rebalanceAnalysis before the analysis has returned
NoAnalysis == [shouldRebalance |-> "undefined"]

\* the state outside the checkRebalancing flow
Idle ==
    /\ res = NoResult
    /\ pc = "idle"
    /\ calls = <<>>
    /\ rebalanceAnalysis = NoAnalysis

Inputs == <<thresholds, now, portfolio, marketPools, userPreferences>>

\* checkTriggers(portfolio, currentMarketPools) called on the inputs
DoCheckTriggers ==
    /\ pc = "idle"
    /\ res = NoResult
    /\ res' = [op |-> "checkTriggers",
               val |-> checkTriggers(thresholds, now, portfolio, marketPools)]
    /\ UNCHANGED <<Inputs, pc, calls, rebalanceAnalysis>>

\* checkBetterOpportunities(portfolio, currentMarketPools) called on the inputs
DoCheckBetterOpportunities ==
    /\ pc = "idle"
    /\ res = NoResult
    /\ res' = [op |-> "checkBetterOpportunities",
               val |-> checkBetterOpportunities(portfolio, marketPools)]
    /\ UNCHANGED <<Inputs, pc, calls, rebalanceAnalysis>>

\* findBetterAlternatives(portfolio, currentMarketPools, userPreferences) called on the inputs
DoFindBetterAlternatives ==
    /\ pc = "idle"
    /\ res = NoResult
    /\ res' = [op |-> "findBetterAlternatives",
               val |-> findBetterAlternatives(portfolio, marketPools, userPreferences)]
    /\ UNCHANGED <<Inputs, pc, calls, rebalanceAnalysis>>

\* generateRebalanceSuggestions(portfolio, currentMarketPools, userPreferences, triggers)
\* called on the inputs
DoGenerateRebalanceSuggestions ==
    /\ pc = "idle"
    /\ res = NoResult
    /\ res' = [op |-> "generateRebalanceSuggestions",
               val |-> generateRebalanceSuggestions(portfolio, marketPools, userPreferences)]
    /\ UNCHANGED <<Inputs, pc, calls, rebalanceAnalysis>>

\* calculatePriority(underperformer, betterOption) called as in the pairing loop of
\* generateRebalanceSuggestions: the underperformer is the first position with the
\* yield of the first pool, the better option is the second pool
DoCalculatePriority ==
    /\ pc = "idle"
    /\ res = NoResult
    /\ res' = [op |-> "calculatePriority",
               val |-> calculatePriority([position |-> portfolio.positions[1],
                                          currentAPY |-> Apy(marketPools[1].apy)],
                                         marketPools[2])]
    /\ UNCHANGED <<Inputs, pc, calls, rebalanceAnalysis>>

\* analyzePortfolio(portfolio, currentMarketPools, userPreferences) called on the inputs
DoAnalyzePortfolio ==
    /\ pc = "idle"
    /\ res = NoResult
    /\ res' = [op |-> "analyzePortfolio",
               val |-> analyzePortfolio(thresholds, now, portfolio, marketPools,
                                        userPreferences)]
    /\ calls' = calls \o analyzePortfolioSteps(thresholds, now, portfolio, marketPools)
    /\ UNCHANGED <<Inputs, pc, rebalanceAnalysis>>

(***************************************************************************)
(* StakingOrchestrator.checkRebalancing: one run, a step per collaborator  *)
(* call.  The backend may fail a request; the data agent falls back to its *)
(* built-in pools and never fails.                                         *)
(***************************************************************************)
Thrown(message) == [op |-> "checkRebalancing", error |-> message]

\* Step 1: await this.portfolioService.getPortfolioById(portfolioId)
FetchPortfolio ==
    /\ pc = "start"
    /\ calls' = Append(calls, "getPortfolioById")
    /\ \E ok \in BOOLEAN :
          IF ok THEN pc' = "fetched" /\ res' = res
          ELSE pc' = "failed" /\ res' = Thrown("Failed to fetch portfolio")
    /\ UNCHANGED <<Inputs, rebalanceAnalysis>>

\* the pools the data agent can return
MaxPoolsF == 2

RawPoolsF ==
    [protocol : {"lido"}, chain : {"ethereum"}, apy : {3200, 4000}, tvl : {14000}]
    \cup
    [protocol : {"frax"}, chain : {"ethereum", "polygon"}, apy : {8000}, tvl : {200}]
    \cup
    [protocol : {"oldprotocol"}, chain : {"polygon"}, apy : {25000}, tvl : {5}]

\* Step 2: await this.dataAgent.collectAllData()
CollectAllData ==
    /\ pc = "fetched"
    /\ calls' = Append(calls, "collectAllData")
    /\ marketPools' \in SeqUpTo(RawPoolsF, MaxPoolsF)
    /\ pc' = "collected"
    /\ UNCHANGED <<thresholds, now, portfolio, userPreferences, res, rebalanceAnalysis>>

\* Step 3: every pool is given its risk assessment
AssessRisks ==
    /\ pc = "collected"
    /\ calls' = calls \o [k \in 1..Len(marketPools) |-> "assessRisk"]
    /\ marketPools' = PoolsWithRisk(marketPools)
    /\ pc' = "assessed"
    /\ UNCHANGED <<thresholds, now, portfolio, userPreferences, res, rebalanceAnalysis>>

\* Step 4: await this.rebalancingAgent.analyzePortfolio(portfolio, poolsWithRisk, userPreferences)
AnalyzePortfolio ==
    /\ pc = "assessed"
    /\ calls' = Append(calls, "analyzePortfolio")
    /\ rebalanceAnalysis' = analyzePortfolio(thresholds, now, portfolio, marketPools,
                                             userPreferences)
    /\ pc' = "analyzed"
    /\ UNCHANGED <<Inputs, res>>

\* variant: the suggestion is saved whatever the verdict
SaveWanted_Always(analysis) == TRUE

\* if (rebalanceAnalysis.shouldRebalance)
SaveWanted(analysis) == analysis.shouldRebalance

\* variant: a failed save leaves the run where it was, to be tried again
SaveRebalanceSuggestion_Retry ==
    /\ pc = "analyzed"
    /\ SaveWanted(rebalanceAnalysis)
    /\ calls' = Append(calls, "saveRebalanceSuggestion")
    /\ \E ok \in BOOLEAN :
          IF ok THEN pc' = "done" /\ res' = [op |-> "checkRebalancing", val |-> rebalanceAnalysis]
          ELSE pc' = pc /\ res' = res
    /\ UNCHANGED <<Inputs, rebalanceAnalysis>>

\* Step 5: await this.portfolioService.saveRebalanceSuggestion(portfolioId, rebalanceAnalysis)
SaveRebalanceSuggestion ==
    /\ pc = "analyzed"
    /\ SaveWanted(rebalanceAnalysis)
    /\ calls' = Append(calls, "saveRebalanceSuggestion")
    /\ \E ok \in BOOLEAN :
          IF ok THEN pc' = "done" /\ res' = [op |-> "checkRebalancing", val |-> rebalanceAnalysis]
          ELSE pc' = "failed" /\ res' = Thrown("Failed to save suggestion")
    /\ UNCHANGED <<Inputs, rebalanceAnalysis>>

\* return rebalanceAnalysis, nothing to save
ReturnAnalysis ==
    /\ pc = "analyzed"
    /\ ~SaveWanted(rebalanceAnalysis)
    /\ pc' = "done"
    /\ res' = [op |-> "checkRebalancing", val |-> rebalanceAnalysis]
    /\ UNCHANGED <<Inputs, calls, rebalanceAnalysis>>

(***************************************************************************)
(* SpecTriggers: checkTriggers over portfolios and markets in which each   *)
(* of the four checks can fire at either of its severities                 *)
(***************************************************************************)
MaxPositionsT == 2

MaxPoolsT == 2

PositionsT(t) ==
    [protocol : {"Lido"}, chain : {"Ethereum"}, amountUSD : {1000},
     initialAPY : {4000, 4400}, initialRiskScore : {0, 300},
     entryDate : {t - Days(10)}]

PoolsT ==
    [protocol : {"lido"}, chain : {"ethereum"}, apy : {4000, 5200}, tvl : {1000},
     risk : {[score |-> 250, level |-> "very-low"], [score |-> 300, level |-> "low"]}]
    \cup
    [protocol : {"frax"}, chain : {"ethereum"}, apy : {4000}, tvl : {1000},
     risk : {NoRisk, [score |-> 250, level |-> "very-low"], [score |-> 300, level |-> "low"]}]

InitTriggers ==
    /\ thresholds = Constructor(NoConfig)
    /\ now \in Clock
    /\ portfolio \in [positions : SeqUpTo(PositionsT(now), MaxPositionsT),
                      lastRebalanceDate : {NoDate, now - Days(30)},
                      targetRiskTolerance : {"medium"}]
    /\ marketPools \in SeqUpTo(PoolsT, MaxPoolsT)
    /\ userPreferences = [riskTolerance |-> "undefined"]
    /\ Idle

NextTriggers == DoCheckTriggers

SpecTriggers == InitTriggers /\ [][NextTriggers]_vars

\* the four checks, evaluated on the inputs
ApyCheck == checkAPYChanges(thresholds, portfolio, marketPools)

RiskCheck == checkRiskChanges(thresholds, portfolio, marketPools)

TimeCheck == checkTimeInterval(thresholds, now, portfolio)

OpportunityCheck == checkBetterOpportunities(portfolio, marketPools)

TriggersReturned == res.op = "checkTriggers"

\* C1: checkTriggers returns shouldRebalance = true iff at least one of the four
\* checks fired, i.e. iff the returned trigger list is non-empty, whatever the
\* aggregate severity label is.
C1_VerdictIffSomeCheckFired ==
    TriggersReturned =>
        /\ res.val.shouldRebalance <=>
              (ApyCheck.triggered \/ RiskCheck.triggered \/ TimeCheck.triggered
                  \/ OpportunityCheck.triggered)
        /\ res.val.shouldRebalance <=> res.val.triggeredFactors # <<>>

\* a verdict to rebalance whose aggregate severity is 'low'
C1_Witness ==
    /\ TriggersReturned
    /\ res.val.shouldRebalance
    /\ res.val.severity = "low"

\* the points the claim assigns to the fired triggers
C2_ExpectedScore ==
    (IF ApyCheck.triggered
     THEN (IF RGt(ApyCheck.maxChange, Num(25)) THEN 3 ELSE 2) ELSE 0)
    + (IF RiskCheck.triggered
       THEN (IF RGt(RiskCheck.maxChange, Num(2)) THEN 3 ELSE 2) ELSE 0)
    + (IF TimeCheck.triggered THEN 1 ELSE 0)
    + (IF OpportunityCheck.triggered
       THEN (IF RGt(OpportunityCheck.score, Num(2)) THEN 3 ELSE 2) ELSE 0)

\* C2: the severity score equals the sum of the points of the fired triggers,
\* and the aggregate severity is 'high' iff score >= 6, 'medium' iff
\* 3 <= score < 6, 'low' otherwise.
C2_ScoreAndSeverity ==
    TriggersReturned =>
        /\ res.val.severityScore = C2_ExpectedScore
        /\ res.val.severity = "high" <=> res.val.severityScore >= 6
        /\ res.val.severity = "medium" <=>
              (res.val.severityScore >= 3 /\ res.val.severityScore < 6)
        /\ res.val.severity = "low" <=> res.val.severityScore < 3

\* a score of exactly 6, the lowest that is 'high'
C2_Witness ==
    /\ TriggersReturned
    /\ res.val.severityScore = 6
    /\ res.val.severity = "high"

\* every matched position's pool yield and risk score equal the position's initial values
C3_Unchanged ==
    \A i \in 1..Len(portfolio.positions) :
        LET position == portfolio.positions[i]
            k == FindPool(marketPools, position)
        IN  k # 0 =>
               /\ marketPools[k].apy = position.initialAPY
               /\ marketPools[k].risk # NoRisk
               /\ marketPools[k].risk.score = position.initialRiskScore

\* the reference timestamp: the last rebalance, else the earliest entry
C3_Reference ==
    IF portfolio.lastRebalanceDate # NoDate THEN portfolio.lastRebalanceDate
    ELSE OldestEntry(portfolio.positions, now)

\* no pool that is not held offers more than 30% risk-adjusted improvement
C3_NoBetterPool ==
    \A k \in 1..Len(marketPools) :
        (~InPortfolio(portfolio, marketPools[k]) /\ HasRisk(marketPools[k])) =>
            ~RGt(ImprovementPercent(marketPools[k], AvgPortfolioAPY(portfolio, marketPools)),
                 Num(30))

C3_NoAction ==
    /\ ~res.val.shouldRebalance
    /\ res.val.triggeredFactors = <<>>

\* C3 as stated: unchanged positions, a reference timestamp at most 30 days old
\* (30 included) and no better pool give shouldRebalance = false and no trigger.
C3_Original ==
    (TriggersReturned /\ thresholds = Constructor(NoConfig) /\ C3_Unchanged
        /\ now - C3_Reference <= Days(30) /\ C3_NoBetterPool)
    => C3_NoAction

\* C3 amended: the same with a reference timestamp less than 30 days old.
C3_QuietPortfolioNoAction ==
    (TriggersReturned /\ thresholds = Constructor(NoConfig) /\ C3_Unchanged
        /\ now - C3_Reference < Days(30) /\ C3_NoBetterPool)
    => C3_NoAction

\* a quiet portfolio with a matched position that carries its own initial risk
\* score, beside a pool that is not held
C3_Witness ==
    /\ TriggersReturned
    /\ C3_Unchanged
    /\ now - C3_Reference < Days(30)
    /\ C3_NoBetterPool
    /\ \E i \in 1..Len(portfolio.positions) :
          /\ FindPool(marketPools, portfolio.positions[i]) # 0
          /\ portfolio.positions[i].initialRiskScore # 0
    /\ \E k \in 1..Len(marketPools) : ~InPortfolio(portfolio, marketPools[k])
    /\ C3_NoAction

(***************************************************************************)
(* SpecApy: checkTriggers over positions and pools that differ in the case *)
(* of their names, their chain and their yields; no pool carries a risk    *)
(* assessment and every position is 10 days old                            *)
(***************************************************************************)
MaxPositionsA == 2

MaxPoolsA == 2

PositionsA(t) ==
    [protocol : {"Lido"}, chain : {"Ethereum", "Polygon"}, amountUSD : {1000},
     initialAPY : {4000, 5000}, initialRiskScore : {0}, entryDate : {t - Days(10)}]

PoolsA ==
    [protocol : {"lido"}, chain : {"ethereum", "polygon"}, apy : {4000, 4600, 5000, 5200},
     tvl : {1000}, risk : {NoRisk}]

ConfigsA == [apyChangePercent : {0, 20}, riskScoreChange : {0}, timeIntervalDays : {0}]

InitApy ==
    /\ thresholds \in {Constructor(c) : c \in ConfigsA}
    /\ now \in Clock
    /\ portfolio \in [positions : SeqUpTo(PositionsA(now), MaxPositionsA),
                      lastRebalanceDate : {NoDate},
                      targetRiskTolerance : {"medium"}]
    /\ marketPools \in SeqUpTo(PoolsA, MaxPoolsA)
    /\ userPreferences = [riskTolerance |-> "undefined"]
    /\ Idle

NextApy == DoCheckTriggers

SpecApy == InitApy /\ [][NextApy]_vars

\* the factors of the given type in the returned trigger list
FactorsOf(type) == SelectSeq(res.val.triggeredFactors, LAMBDA f : f.type = type)

\* the points the returned score holds beyond those of the checks in `others`
PointsBeyond(others) == res.val.severityScore - others

C6_RiskTimeOpportunityPoints ==
    (IF RiskCheck.triggered
     THEN (IF RGt(RiskCheck.maxChange, Num(2)) THEN 3 ELSE 2) ELSE 0)
    + (IF TimeCheck.triggered THEN 1 ELSE 0)
    + (IF OpportunityCheck.triggered
       THEN (IF RGt(OpportunityCheck.score, Num(2)) THEN 3 ELSE 2) ELSE 0)

\* the first pool whose lower-cased (protocol, chain) equal the position's; 0 if none
C6_PoolOf(position) ==
    LET hits == {k \in 1..Len(marketPools) :
                    /\ ToLowerCase(marketPools[k].protocol) = ToLowerCase(position.protocol)
                    /\ ToLowerCase(marketPools[k].chain) = ToLowerCase(position.chain)}
    IN  IF hits = {} THEN 0 ELSE CHOOSE k \in hits : \A j \in hits : k <= j

\* |poolYield - initialYield| / initialYield * 100 of a matched position
C6_Change(position) ==
    R(Abs(marketPools[C6_PoolOf(position)].apy - position.initialAPY) * 100,
      position.initialAPY)

\* the positions that match a pool and whose change exceeds the threshold
C6_Exceeding ==
    {i \in 1..Len(portfolio.positions) :
        /\ C6_PoolOf(portfolio.positions[i]) # 0
        /\ RGt(C6_Change(portfolio.positions[i]), Num(thresholds.apyChangePercent))}

\* C6: the yield-change check fires iff some position that matches a pool by
\* case-insensitive (protocol, chain) changed by strictly more than the
\* threshold; unmatched positions never contribute; the recorded maximum is
\* the largest such change; 3 points when it exceeds 25, else 2.
C6_YieldChangeCheck ==
    TriggersReturned =>
        LET fs == FactorsOf("apy_change")
            mine == PointsBeyond(C6_RiskTimeOpportunityPoints)
        IN  /\ Len(fs) = (IF C6_Exceeding # {} THEN 1 ELSE 0)
            /\ C6_Exceeding = {} => mine = 0
            /\ C6_Exceeding # {} =>
                  LET maxChange == fs[1].details.maxChange
                  IN  /\ \E i \in C6_Exceeding :
                            maxChange = C6_Change(portfolio.positions[i])
                      /\ \A i \in C6_Exceeding :
                            RLe(C6_Change(portfolio.positions[i]), maxChange)
                      /\ Len(fs[1].details.changes) = Cardinality(C6_Exceeding)
                      /\ mine = (IF RGt(maxChange, Num(25)) THEN 3 ELSE 2)

\* the check fired on a position whose names differ in case from its pool's, at
\* a change of at most 25, beside a position that matches no pool
C6_Witness ==
    /\ TriggersReturned
    /\ C6_Exceeding # {}
    /\ \E i \in C6_Exceeding :
          portfolio.positions[i].protocol
              # marketPools[C6_PoolOf(portfolio.positions[i])].protocol
    /\ \E i \in 1..Len(portfolio.positions) : C6_PoolOf(portfolio.positions[i]) = 0
    /\ PointsBeyond(C6_RiskTimeOpportunityPoints) = 2

(***************************************************************************)
(* SpecTime: checkTriggers over entry dates and last-rebalance dates       *)
(* around the interval, with an empty market                               *)
(***************************************************************************)
MaxPositionsI == 2

PositionsI(t) ==
    [protocol : {"Lido"}, chain : {"Ethereum"}, amountUSD : {1000},
     initialAPY : {4000}, initialRiskScore : {0},
     entryDate : {t + Days(1), t - Days(10), t - Days(30) + 1, t - Days(30), t - Days(45)}]

ConfigsI == [apyChangePercent : {0}, riskScoreChange : {0}, timeIntervalDays : {0, 40}]

InitTime ==
    /\ thresholds \in {Constructor(c) : c \in ConfigsI}
    /\ now \in Clock
    /\ portfolio \in [positions : SeqUpTo(PositionsI(now), MaxPositionsI),
                      lastRebalanceDate : {NoDate, now - Days(5), now - Days(30) + 1,
                                           now - Days(30), now - Days(40)},
                      targetRiskTolerance : {"medium"}]
    /\ marketPools = <<>>
    /\ userPreferences = [riskTolerance |-> "undefined"]
    /\ Idle

NextTime == DoCheckTriggers

SpecTime == InitTime /\ [][NextTime]_vars

C7_ApyRiskOpportunityPoints ==
    (IF ApyCheck.triggered
     THEN (IF RGt(ApyCheck.maxChange, Num(25)) THEN 3 ELSE 2) ELSE 0)
    + (IF RiskCheck.triggered
       THEN (IF RGt(RiskCheck.maxChange, Num(2)) THEN 3 ELSE 2) ELSE 0)
    + (IF OpportunityCheck.triggered
       THEN (IF RGt(OpportunityCheck.score, Num(2)) THEN 3 ELSE 2) ELSE 0)

\* the earliest entry timestamp of a non-empty portfolio
C7_EarliestEntry ==
    CHOOSE d \in {portfolio.positions[i].entryDate : i \in 1..Len(portfolio.positions)} :
        \A i \in 1..Len(portfolio.positions) : d <= portfolio.positions[i].entryDate

\* the time_interval factor is returned, with severity 'low' and 1 point, iff
\* the whole days elapsed since `reference` reach the configured interval
C7_FiresFrom(reference) ==
    LET fs == FactorsOf("time_interval")
        days == (now - reference) \div 24
        mine == PointsBeyond(C7_ApyRiskOpportunityPoints)
    IN  IF days >= thresholds.timeIntervalDays
        THEN Len(fs) = 1 /\ fs[1].severity = "low" /\ mine = 1
                /\ fs[1].details.daysSinceLastAction = days
        ELSE Len(fs) = 0 /\ mine = 0

\* C7 as stated: the days are measured since the later of the last-rebalance
\* timestamp (when present) and the earliest position entry timestamp.
C7_Original ==
    (TriggersReturned /\ portfolio.positions # <<>>) =>
        C7_FiresFrom(IF portfolio.lastRebalanceDate # NoDate
                        /\ portfolio.lastRebalanceDate > C7_EarliestEntry
                     THEN portfolio.lastRebalanceDate
                     ELSE C7_EarliestEntry)

\* C7 amended: the days are measured since the last-rebalance timestamp when one
\* is present, otherwise since the earliest position entry timestamp that lies
\* in the past (the current time when there is none).
C7_TimeIntervalCheck ==
    TriggersReturned =>
        C7_FiresFrom(IF portfolio.lastRebalanceDate # NoDate
                     THEN portfolio.lastRebalanceDate
                     ELSE IF portfolio.positions # <<>> /\ C7_EarliestEntry < now
                          THEN C7_EarliestEntry
                          ELSE now)

\* the check fired on a last-rebalance date older than every entry date
C7_Witness ==
    /\ TriggersReturned
    /\ portfolio.positions # <<>>
    /\ portfolio.lastRebalanceDate # NoDate
    /\ portfolio.lastRebalanceDate < C7_EarliestEntry
    /\ Len(FactorsOf("time_interval")) = 1

(***************************************************************************)
(* SpecOpp: checkBetterOpportunities over markets of up to four pools      *)
(***************************************************************************)
MaxPositionsO == 1

MaxPoolsO == 4

PositionsO(t) ==
    [protocol : {"Lido"}, chain : {"Ethereum"}, amountUSD : {1000},
     initialAPY : {4000}, initialRiskScore : {0}, entryDate : {t - Days(10)}]

PoolsO ==
    [protocol : {"frax"}, chain : {"ethereum"}, apy : {4000, 6000}, tvl : {1000},
     risk : {NoRisk, [score |-> 300, level |-> "low"], [score |-> 500, level |-> "medium"]}]
    \cup
    [protocol : {"lido"}, chain : {"ethereum"}, apy : {4000}, tvl : {1000},
     risk : {[score |-> 300, level |-> "low"]}]

InitOpp ==
    /\ thresholds = Constructor(NoConfig)
    /\ now \in Clock
    /\ portfolio \in [positions : SeqUpTo(PositionsO(now), MaxPositionsO),
                      lastRebalanceDate : {NoDate},
                      targetRiskTolerance : {"medium"}]
    /\ marketPools \in SeqUpTo(PoolsO, MaxPoolsO)
    /\ userPreferences = [riskTolerance |-> "undefined"]
    /\ Idle

NextOpp == DoCheckBetterOpportunities

SpecOpp == InitOpp /\ [][NextOpp]_vars

\* improvement of pool k over the baseline: the unweighted average yield / 5
C8_Improvement(k) ==
    LET baseline == RDiv(AvgPortfolioAPY(portfolio, marketPools), Num(5))
        ratio == RDiv(Apy(marketPools[k].apy), RiskScoreOf(marketPools[k]))
    IN  RMul(RDiv(RSub(ratio, baseline), baseline), Num(100))

\* the not-held, risk-assessed pools that exceed the baseline by more than 30%
C8_Qualifying ==
    {k \in 1..Len(marketPools) :
        /\ ~InPortfolio(portfolio, marketPools[k])
        /\ HasRisk(marketPools[k])
        /\ RGt(C8_Improvement(k), Num(30))}

\* C8: the opportunities reported are the (at most 3) pools with the largest
\* improvement among the qualifying pools; the check fires iff one exists.
C8_TopThreeByImprovement ==
    (res.op = "checkBetterOpportunities" /\ portfolio.positions # <<>>) =>
        LET reported == res.val.opportunities
            n == Cardinality(C8_Qualifying)
        IN  /\ res.val.triggered <=> n > 0
            /\ Len(reported) = (IF n < 3 THEN n ELSE 3)
            /\ \A j \in 1..Len(reported) :
                  \E k \in C8_Qualifying : reported[j].raw = C8_Improvement(k)
            \* every pool that improves more than a reported one is reported too
            /\ \A j \in 1..Len(reported) :
                  Cardinality({k \in C8_Qualifying :
                                  RGt(C8_Improvement(k), reported[j].raw)})
                  = Cardinality({i \in 1..Len(reported) :
                                    RGt(reported[i].raw, reported[j].raw)})

(***************************************************************************)
(* SpecAlt: findBetterAlternatives over markets of up to six pools and the *)
(* three sources of the risk tolerance                                     *)
(***************************************************************************)
MaxPoolsR == 6

PoolsR ==
    {[protocol |-> "aave", chain |-> "ethereum", apy |-> 9000, tvl |-> 1000, risk |-> NoRisk],
     [protocol |-> "lido", chain |-> "ethereum", apy |-> 3000, tvl |-> 1000,
      risk |-> [score |-> 250, level |-> "very-low"]],
     [protocol |-> "frax", chain |-> "ethereum", apy |-> 4500, tvl |-> 1000,
      risk |-> [score |-> 300, level |-> "low"]],
     [protocol |-> "frax", chain |-> "polygon", apy |-> 5000, tvl |-> 1000,
      risk |-> [score |-> 500, level |-> "medium"]]}

\* (userPreferences.riskTolerance, portfolio.target_risk_tolerance)
TolerancesR ==
    {<<"undefined", "undefined">>, <<"undefined", "low">>, <<"high", "low">>,
     <<"medium", "undefined">>}

InitAlt ==
    /\ thresholds = Constructor(NoConfig)
    /\ now \in Clock
    /\ \E tol \in TolerancesR :
          /\ userPreferences = [riskTolerance |-> tol[1]]
          /\ portfolio = [positions |-> <<>>, lastRebalanceDate |-> NoDate,
                          targetRiskTolerance |-> tol[2]]
    /\ marketPools \in SeqUpTo(PoolsR, MaxPoolsR)
    /\ Idle

NextAlt == DoFindBetterAlternatives

SpecAlt == InitAlt /\ [][NextAlt]_vars

\* the effective tolerance: the explicit override, else the portfolio's, else medium
C9_Tolerance ==
    IF userPreferences.riskTolerance # "undefined" THEN userPreferences.riskTolerance
    ELSE IF portfolio.targetRiskTolerance # "undefined" THEN portfolio.targetRiskTolerance
    ELSE "medium"

\* the pools that carry a risk assessment and pass the tolerance policy
C9_Passing ==
    {k \in 1..Len(marketPools) :
        /\ marketPools[k].risk # NoRisk
        /\ CASE C9_Tolerance = "low" -> marketPools[k].risk.level \in {"low", "very-low"}
             [] C9_Tolerance = "medium" -> marketPools[k].risk.level \in {"low", "medium"}
             [] OTHER -> TRUE}

\* yield / riskScore
C9_Ratio(pool) == R(pool.apy * 100, pool.risk.score * 1000)

C9_Same(alt, pool) ==
    /\ alt.protocol = pool.protocol
    /\ alt.chain = pool.chain
    /\ alt.apy = pool.apy
    /\ alt.risk = pool.risk

\* C9: findBetterAlternatives returns exactly the (at most 5) pools with the
\* highest yield/riskScore among the pools that carry a risk assessment and
\* pass the tolerance policy, in non-increasing order of yield/riskScore; a
\* pool without a risk assessment is never returned.
C9_TopFiveByReturn ==
    res.op = "findBetterAlternatives" =>
        LET out == res.val
            n == Cardinality(C9_Passing)
        IN  /\ Len(out) = (IF n < 5 THEN n ELSE 5)
            /\ \A j \in 1..Len(out) : out[j].risk # NoRisk
            \* each returned pool is a passing pool, returned no more often than it occurs
            /\ \A j \in 1..Len(out) :
                  Cardinality({i \in 1..Len(out) : C9_Same(out[i], out[j])})
                  <= Cardinality({k \in C9_Passing : C9_Same(out[j], marketPools[k])})
            /\ \A j \in 1..Len(out) : \E k \in C9_Passing : C9_Same(out[j], marketPools[k])
            \* in non-increasing order
            /\ \A j \in 1..(Len(out) - 1) : RGe(C9_Ratio(out[j]), C9_Ratio(out[j + 1]))
            \* no passing pool left out is better than a returned one
            /\ \A j \in 1..Len(out) :
                  Cardinality({k \in C9_Passing :
                                  RGt(C9_Ratio(marketPools[k]), C9_Ratio(out[j]))})
                  = Cardinality({i \in 1..Len(out) :
                                    RGt(C9_Ratio(out[i]), C9_Ratio(out[j]))})

\* six passing pools of differing returns of which five are returned, under
\* medium tolerance
C9_Witness ==
    /\ res.op = "findBetterAlternatives"
    /\ C9_Tolerance = "medium"
    /\ Cardinality(C9_Passing) = 6
    /\ Len(res.val) = 5
    /\ \E j \in 1..4 : RGt(C9_Ratio(res.val[j]), C9_Ratio(res.val[j + 1]))

(***************************************************************************)
(* SpecSuggest: generateRebalanceSuggestions over portfolios whose pools   *)
(* lag the market and markets with alternatives of several risk levels     *)
(***************************************************************************)
MaxPositionsS == 2

MaxPoolsS == 3

PositionsS(t) ==
    [protocol : {"Lido", "Aave"}, chain : {"Ethereum"}, amountUSD : {1000},
     initialAPY : {4000}, initialRiskScore : {0}, entryDate : {t - Days(10)}]

PoolsS ==
    [protocol : {"lido"}, chain : {"ethereum"}, apy : {2000}, tvl : {1000},
     risk : {NoRisk, [score |-> 250, level |-> "very-low"],
             [score |-> 500, level |-> "medium"]}]
    \cup
    [protocol : {"aave"}, chain : {"ethereum"}, apy : {2000}, tvl : {1000},
     risk : {[score |-> 300, level |-> "low"]}]
    \cup
    [protocol : {"frax"}, chain : {"ethereum"}, apy : {6000, 8000}, tvl : {1000},
     risk : {[score |-> 300, level |-> "low"], [score |-> 500, level |-> "medium"]}]

InitSuggest ==
    /\ thresholds = Constructor(NoConfig)
    /\ now \in Clock
    /\ portfolio \in [positions : SeqUpTo(PositionsS(now), MaxPositionsS),
                      lastRebalanceDate : {NoDate},
                      targetRiskTolerance : {"medium"}]
    /\ marketPools \in SeqUpTo(PoolsS, MaxPoolsS)
    /\ userPreferences \in [riskTolerance : {"undefined", "low"}]
    /\ Idle

NextSuggest == DoGenerateRebalanceSuggestions

SpecSuggest == InitSuggest /\ [][NextSuggest]_vars

\* the underperformer's current pool risk level, 'medium' when unknown
C10_Level(u) == IF u.currentPool.risk = NoRisk THEN "medium" ELSE u.currentPool.risk.level

\* ranks of the risk-compatible alternatives
C10_Compatible(alternatives, u) ==
    {k \in 1..Len(alternatives) : alternatives[k].risk.level = C10_Level(u)}

\* rank of the first-ranked risk-compatible alternative
C10_First(alternatives, u) ==
    CHOOSE k \in C10_Compatible(alternatives, u) :
        \A j \in C10_Compatible(alternatives, u) : k <= j

\* the suggestion moves the underperformer's position to the alternative
C10_Pairs(sg, u, alt) ==
    /\ sg.from.protocol = u.position.protocol
    /\ sg.from.chain = u.position.chain
    /\ sg.from.amountUSD = u.position.amountUSD
    /\ sg.to.protocol = alt.protocol
    /\ sg.to.chain = alt.chain
    /\ sg.to.apy = FmtPct(Apy(alt.apy))
    /\ sg.to.risk = C10_Level(u)

\* C10: every rebalance suggestion pairs an underperformer with the first-ranked
\* alternative whose risk level equals the underperformer's current pool risk
\* level ('medium' when unknown); an underperformer with no risk-compatible
\* alternative, including when the ranked list is empty, yields no suggestion
\* and no error.
C10_PairsFirstCompatible ==
    res.op = "generateRebalanceSuggestions" =>
        LET ups == identifyUnderperformers(portfolio, marketPools)
            alts == findBetterAlternatives(portfolio, marketPools, userPreferences)
            rebalances == SelectSeq(res.val, LAMBDA sg : sg.action = "rebalance")
            served == {i \in 1..Len(ups) : C10_Compatible(alts, ups[i]) # {}}
        IN  /\ Len(rebalances) = Cardinality(served)
            /\ \A i \in served :
                  \E j \in 1..Len(rebalances) :
                      C10_Pairs(rebalances[j], ups[i], alts[C10_First(alts, ups[i])])
            /\ \A j \in 1..Len(rebalances) :
                  \E i \in served :
                      C10_Pairs(rebalances[j], ups[i], alts[C10_First(alts, ups[i])])

\* one underperformer is paired with an alternative that is not the best-ranked
\* one, another finds no alternative of its risk level
C10_Witness ==
    /\ res.op = "generateRebalanceSuggestions"
    /\ LET ups == identifyUnderperformers(portfolio, marketPools)
           alts == findBetterAlternatives(portfolio, marketPools, userPreferences)
       IN  /\ \E i \in 1..Len(ups) :
                 /\ C10_Compatible(alts, ups[i]) # {}
                 /\ 1 \notin C10_Compatible(alts, ups[i])
           /\ \E i \in 1..Len(ups) : C10_Compatible(alts, ups[i]) = {}
    /\ \E j \in 1..Len(res.val) : res.val[j].action = "rebalance"

(***************************************************************************)
(* SpecAnalyze: analyzePortfolio over small portfolios and markets drawn    *)
(* from the positions and pools of SpecSuggest                             *)
(***************************************************************************)
MaxPositionsN == 1

MaxPoolsN == 2

InitAnalyze ==
    /\ thresholds = Constructor(NoConfig)
    /\ now \in Clock
    /\ portfolio \in [positions : SeqUpTo(PositionsS(now), MaxPositionsN),
                      lastRebalanceDate : {NoDate},
                      targetRiskTolerance : {"medium"}]
    /\ marketPools \in SeqUpTo(PoolsS, MaxPoolsN)
    /\ userPreferences \in [riskTolerance : {"undefined", "low"}]
    /\ Idle

NextAnalyze == DoAnalyzePortfolio

SpecAnalyze == InitAnalyze /\ [][NextAnalyze]_vars

\* some check of checkTriggers fired on the inputs
C4_SomeTriggerFired ==
    \/ ApyCheck.triggered
    \/ RiskCheck.triggered
    \/ TimeCheck.triggered
    \/ OpportunityCheck.triggered

C4_Ran(method) == \E i \in 1..Len(calls) : calls[i] = method

\* C4: when no trigger fired analyzePortfolio returns shouldRebalance = false
\* without running suggestion generation or impact estimation, and the result
\* carries no suggestions and no estimatedImpact; when a trigger fired the
\* result carries the trigger list, the aggregate severity, the suggestions
\* and the estimated impact.
C4_NoActionOrFullResult ==
    res.op = "analyzePortfolio" =>
        IF ~C4_SomeTriggerFired
        THEN /\ res.val.shouldRebalance = FALSE
             /\ ~C4_Ran("generateRebalanceSuggestions")
             /\ ~C4_Ran("estimateImpact")
             /\ "suggestions" \notin DOMAIN res.val
             /\ "estimatedImpact" \notin DOMAIN res.val
        ELSE LET triggers == checkTriggers(thresholds, now, portfolio, marketPools)
                 suggestions == generateRebalanceSuggestions(portfolio, marketPools,
                                                             userPreferences)
             IN  /\ res.val.shouldRebalance = TRUE
                 /\ {"triggers", "severity", "suggestions", "estimatedImpact"}
                       \subseteq DOMAIN res.val
                 /\ res.val.triggers = triggers.triggeredFactors
                 /\ Len(res.val.triggers) > 0
                 /\ res.val.severity = triggers.severity
                 /\ res.val.suggestions = suggestions
                 /\ res.val.estimatedImpact = estimateImpact(portfolio, suggestions)
                 /\ C4_Ran("generateRebalanceSuggestions")
                 /\ C4_Ran("estimateImpact")

\* no trigger fired on a portfolio for which suggestion generation would have
\* produced a suggestion
C4_Witness ==
    /\ res.op = "analyzePortfolio"
    /\ ~C4_SomeTriggerFired
    /\ Len(portfolio.positions) > 0
    /\ Len(marketPools) > 0
    /\ generateRebalanceSuggestions(portfolio, marketPools, userPreferences) # <<>>
    /\ res.val.shouldRebalance = FALSE

(***************************************************************************)
(* SpecFlow: one run of checkRebalancing                                   *)
(***************************************************************************)
MaxPositionsF == 2

PositionsF(t) ==
    [protocol : {"Lido"}, chain : {"Ethereum"}, amountUSD : {1000},
     initialAPY : {3200}, initialRiskScore : {130, 0},
     entryDate : {t - Days(10), t - Days(45)}]

InitFlow ==
    /\ thresholds = Constructor(NoConfig)
    /\ now \in Clock
    /\ portfolio \in [positions : SeqUpTo(PositionsF(now), MaxPositionsF),
                      lastRebalanceDate : {NoDate},
                      targetRiskTolerance : {"medium"}]
    /\ marketPools = <<>>
    /\ userPreferences = [riskTolerance |-> "undefined"]
    /\ res = NoResult
    /\ pc = "start"
    /\ calls = <<>>
    /\ rebalanceAnalysis = NoAnalysis

NextFlow ==
    \/ FetchPortfolio
    \/ CollectAllData
    \/ AssessRisks
    \/ AnalyzePortfolio
    \/ SaveRebalanceSuggestion
    \/ ReturnAnalysis

SpecFlow == InitFlow /\ [][NextFlow]_vars

\* positions in the call log of a collaborator call
C5_CallsOf(name) == {i \in 1..Len(calls) : calls[i] = name}

\* C5: in every run of checkRebalancing, saveRebalanceSuggestion is called only
\* if the analysis returned shouldRebalance = true, at most once, and only
\* after the analysis has completed; when shouldRebalance is false no save
\* call is ever issued.
C5_SaveOnlyOnRebalance ==
    /\ Cardinality(C5_CallsOf("saveRebalanceSuggestion")) <= 1
    /\ \A j \in C5_CallsOf("saveRebalanceSuggestion") :
          /\ \E i \in C5_CallsOf("analyzePortfolio") : i < j
          /\ rebalanceAnalysis # NoAnalysis
          /\ rebalanceAnalysis.shouldRebalance = TRUE
    /\ (rebalanceAnalysis # NoAnalysis /\ rebalanceAnalysis.shouldRebalance = FALSE)
          => C5_CallsOf("saveRebalanceSuggestion") = {}

\* a run that saved its suggestion and returned
C5_Witness ==
    /\ pc = "done"
    /\ rebalanceAnalysis # NoAnalysis
    /\ rebalanceAnalysis.shouldRebalance = TRUE
    /\ Cardinality(C5_CallsOf("saveRebalanceSuggestion")) = 1
    /\ res.val = rebalanceAnalysis

(***************************************************************************)
(* SpecPriority: calculatePriority over position values and yields on both *)
(* sides of every threshold of the priority rules                          *)
(***************************************************************************)
AmountsP == {0, 500, 1000, 1001, 2000, 2001, 5000, 5001, 8000}

CurrentApysP == {2000, 4000}

BetterApysP ==
    {1000, 3000, 3001, 3500, 3501, 4000, 4001, 5000, 5001, 5500, 5501, 6000, 6001,
     7000, 7001, 9000}

PositionsP(t) ==
    [protocol : {"Lido"}, chain : {"Ethereum"}, amountUSD : AmountsP,
     initialAPY : {4000}, initialRiskScore : {0}, entryDate : {t - Days(10)}]

CurrentPoolsP ==
    [protocol : {"lido"}, chain : {"ethereum"}, apy : CurrentApysP, tvl : {1000},
     risk : {[score |-> 300, level |-> "low"]}]

BetterPoolsP ==
    [protocol : {"frax"}, chain : {"ethereum"}, apy : BetterApysP, tvl : {1000},
     risk : {[score |-> 300, level |-> "low"]}]

InitPriority ==
    /\ thresholds = Constructor(NoConfig)
    /\ now \in Clock
    /\ portfolio \in [positions : {<<p>> : p \in PositionsP(now)},
                      lastRebalanceDate : {NoDate},
                      targetRiskTolerance : {"medium"}]
    /\ marketPools \in {<<c, b>> : c \in CurrentPoolsP, b \in BetterPoolsP}
    /\ userPreferences \in [riskTolerance : {"undefined"}]
    /\ Idle

NextPriority == DoCalculatePriority

SpecPriority == InitPriority /\ [][NextPriority]_vars

\* the position value in dollars
C11_Value == portfolio.positions[1].amountUSD

\* the yield delta in thousandths of a percentage point
C11_Delta == marketPools[2].apy - marketPools[1].apy

C12_Priority(value, currentApy, betterApy) ==
    PriorityOrder(calculatePriority(
        [position |-> [portfolio.positions[1] EXCEPT !.amountUSD = value],
         currentAPY |-> Apy(currentApy)],
        [marketPools[2] EXCEPT !.apy = betterApy]))

\* C12: with the yield delta fixed a larger position value never yields a lower
\* priority, and with the position value fixed a larger yield delta never yields
\* a lower priority (low < medium < high).
C12_Monotonic ==
    res.op = "calculatePriority" =>
        /\ \A value \in AmountsP :
              value >= C11_Value =>
                  C12_Priority(value, marketPools[1].apy, marketPools[2].apy)
                      >= PriorityOrder(res.val)
        /\ \A c \in CurrentApysP, b \in BetterApysP :
              b - c >= C11_Delta =>
                  C12_Priority(C11_Value, c, b) >= PriorityOrder(res.val)

\* a 'medium' result that a larger value and a larger delta each raise to 'high'
C12_Witness ==
    /\ res.op = "calculatePriority"
    /\ res.val = "medium"
    /\ \E value \in AmountsP :
          /\ value > C11_Value
          /\ C12_Priority(value, marketPools[1].apy, marketPools[2].apy) = 3
    /\ \E b \in BetterApysP :
          /\ b > marketPools[2].apy
          /\ C12_Priority(C11_Value, marketPools[1].apy, b) = 3

(***************************************************************************)
(* SpecDiversify: generateRebalanceSuggestions over portfolios of several  *)
(* concentrations and protocol mixes, with and without a market in which   *)
(* the positions underperform by deltas that give every priority           *)
(***************************************************************************)
MaxPositionsD == 3

PositionsD(t) ==
    [protocol : {"Lido", "Aave"}, chain : {"Ethereum"},
     amountUSD : {0, 3000, 4000, 6000, 7000},
     initialAPY : {4000}, initialRiskScore : {0}, entryDate : {t - Days(10)}]
    \cup
    [protocol : {"lido"}, chain : {"Ethereum"}, amountUSD : {4000},
     initialAPY : {4000}, initialRiskScore : {0}, entryDate : {t - Days(10)}]

\* lido and aave lag the market average; frax is 1.4 points above lido at lido's
\* risk level, curve 2.1 points above aave at aave's risk level
MarketD ==
    << [protocol |-> "lido", chain |-> "ethereum", apy |-> 2000, tvl |-> 1000,
        risk |-> [score |-> 300, level |-> "low"]],
       [protocol |-> "aave", chain |-> "ethereum", apy |-> 2000, tvl |-> 1000,
        risk |-> [score |-> 500, level |-> "medium"]],
       [protocol |-> "frax", chain |-> "ethereum", apy |-> 3400, tvl |-> 1000,
        risk |-> [score |-> 300, level |-> "low"]],
       [protocol |-> "curve", chain |-> "ethereum", apy |-> 4100, tvl |-> 1000,
        risk |-> [score |-> 500, level |-> "medium"]] >>

InitDiversify ==
    /\ thresholds = Constructor(NoConfig)
    /\ now \in Clock
    /\ portfolio \in [positions : SeqUpTo(PositionsD(now), MaxPositionsD),
                      lastRebalanceDate : {NoDate},
                      targetRiskTolerance : {"medium"}]
    /\ marketPools \in {<<>>, MarketD}
    /\ userPreferences \in [riskTolerance : {"undefined"}]
    /\ Idle

NextDiversify == DoGenerateRebalanceSuggestions

SpecDiversify == InitDiversify /\ [][NextDiversify]_vars

\* the sum of the position values, in dollars
RECURSIVE C13_Total(_)
C13_Total(positions) ==
    IF positions = <<>> THEN 0
    ELSE C13_Total(Tail(positions)) + Head(positions).amountUSD

\* the largest share of total value exceeds 60%
C13_Concentrated(positions) ==
    \E i \in 1..Len(positions) :
        positions[i].amountUSD * 100 > MaxConcentrationPercent * C13_Total(positions)

\* more than one position, all of one protocol
C13_OneProtocol(positions) ==
    /\ Len(positions) > 1
    /\ \A i, j \in 1..Len(positions) :
          ToLowerCase(positions[i].protocol) = ToLowerCase(positions[j].protocol)

\* the diversify suggestions of a suggestion list
C13_Diversify(suggestions) == SelectSeq(suggestions, LAMBDA sg : sg.action = "diversify")

\* C13: the suggestion list contains one diversify suggestion of priority 'medium'
\* recommending a 40-30-30 split when the largest position's share of total value
\* exceeds 60%; otherwise one recommending spread across protocols iff there is
\* more than one position and all positions share one protocol; otherwise none;
\* whether or not an underperformer was found.
C13_DiversifySuggestion ==
    res.op = "generateRebalanceSuggestions" =>
        LET d == C13_Diversify(res.val)
        IN  IF C13_Concentrated(portfolio.positions)
            THEN /\ Len(d) = 1
                 /\ d[1].priority = "medium"
                 /\ d[1].details.reason = "Portfolio too concentrated"
                 /\ d[1].details.suggestedAllocation = "40-30-30 split"
            ELSE IF C13_OneProtocol(portfolio.positions)
            THEN /\ Len(d) = 1
                 /\ d[1].priority = "medium"
                 /\ d[1].details.reason = "All positions in same protocol"
                 /\ d[1].details.recommendation =
                        "Diversify across multiple protocols to reduce protocol risk"
            ELSE d = <<>>

\* a portfolio of 10000 split 70/30 whose positions also underperform: the list
\* holds rebalance suggestions and the 40-30-30 diversify suggestion
C13_Witness ==
    /\ res.op = "generateRebalanceSuggestions"
    /\ Len(portfolio.positions) = 2
    /\ portfolio.positions[1].amountUSD = 7000
    /\ portfolio.positions[2].amountUSD = 3000
    /\ \E j \in 1..Len(res.val) : res.val[j].action = "rebalance"
    /\ \E j \in 1..Len(res.val) :
          /\ res.val[j].action = "diversify"
          /\ res.val[j].priority = "medium"
          /\ res.val[j].details.suggestedAllocation = "40-30-30 split"

\* the source positions, as (protocol, value), of the rebalance suggestions of
\* one priority, in list order
C14_Sources(suggestions, priority) ==
    LET sel == SelectSeq(suggestions,
                         LAMBDA sg : sg.action = "rebalance" /\ sg.priority = priority)
    IN  [j \in 1..Len(sel) |-> <<sel[j].from.protocol, sel[j].from.amountUSD>>]

\* the positions, as (protocol, value), that occur among the given sources, in
\* portfolio order
C14_InPositionOrder(positions, sources) ==
    SelectSeq([i \in 1..Len(positions) |->
                  <<positions[i].protocol, positions[i].amountUSD>>],
              LAMBDA x : \E j \in 1..Len(sources) : sources[j] = x)

\* C14: the suggestion list is ordered by non-increasing priority, and suggestions
\* of equal priority keep the order in which they were generated: rebalance
\* suggestions in position order, then the diversify suggestion.
C14_SortedStable ==
    res.op = "generateRebalanceSuggestions" =>
        /\ \A i, j \in 1..Len(res.val) :
              i < j => PriorityOrder(res.val[i].priority)
                           >= PriorityOrder(res.val[j].priority)
        /\ \A priority \in {"high", "medium", "low"} :
              C14_Sources(res.val, priority) =
                  C14_InPositionOrder(portfolio.positions,
                                      C14_Sources(res.val, priority))
        /\ \A i, j \in 1..Len(res.val) :
              /\ res.val[i].action = "rebalance"
              /\ res.val[j].action = "diversify"
              /\ res.val[i].priority = res.val[j].priority
              => i < j

\* the first position generated a 'low' suggestion that the sort moved behind two
\* 'medium' rebalance suggestions of different positions and the diversify
\* suggestion
C14_Witness ==
    /\ res.op = "generateRebalanceSuggestions"
    /\ Len(res.val) = 4
    /\ [j \in 1..4 |-> res.val[j].priority] = <<"medium", "medium", "medium", "low">>
    /\ res.val[1].action = "rebalance"
    /\ res.val[2].action = "rebalance"
    /\ res.val[1].from # res.val[2].from
    /\ res.val[3].action = "diversify"
    /\ res.val[4].from.protocol = portfolio.positions[1].protocol
    /\ res.val[4].from.amountUSD = portfolio.positions[1].amountUSD

(***************************************************************************)
(* StakingOrchestrator: portfolio metrics                                  *)
(***************************************************************************)
\* pos.current_apy || pos.currentAPY || pos.initial_apy || pos.initialAPY || 0
\* (0 stands for an absent field)
PositionAPY(pos) ==
    IF pos.currentAPY # 0 THEN Apy(pos.currentAPY)
    ELSE IF pos.initialAPY # 0 THEN Apy(pos.initialAPY)
    ELSE Num(0)

\* pos.current_risk_score || pos.currentRiskScore || pos.initial_risk_score ||
\* pos.initialRiskScore || 5
PositionRisk(pos) ==
    IF pos.currentRiskScore # 0 THEN Score(pos.currentRiskScore)
    ELSE IF pos.initialRiskScore # 0 THEN Score(pos.initialRiskScore)
    ELSE Num(5)

\* (pos.amount_usd || pos.amountUSD || 0) / totalValue
Weight(pos, totalValue) == RDiv(AmountOf(pos), totalValue)

\* reduce((sum, pos) => sum + apy * weight, 0)
WeightedAPY(pf, totalValue) ==
    SumOf([i \in 1..Len(pf.positions) |->
              RMul(PositionAPY(pf.positions[i]), Weight(pf.positions[i], totalValue))])

\* reduce((sum, pos) => sum + risk, 0) / portfolio.positions.length
AvgRiskScore(pf) ==
    RDiv(SumOf([i \in 1..Len(pf.positions) |-> PositionRisk(pf.positions[i])]),
         Num(Len(pf.positions)))

\* variant: the shares are summed without being squared
Herfindahl_Unsquared(pf, totalValue) ==
    SumOf([i \in 1..Len(pf.positions) |-> Weight(pf.positions[i], totalValue)])

\* reduce((sum, pos) => sum + weight * weight, 0)
Herfindahl(pf, totalValue) ==
    SumOf([i \in 1..Len(pf.positions) |->
              RMul(Weight(pf.positions[i], totalValue),
                   Weight(pf.positions[i], totalValue))])

\* (1 - herfindahl) * 10
DiversificationScore(pf, totalValue) ==
    RMul(RSub(Num(1), Herfindahl(pf, totalValue)), Num(10))

MetricsOf(pf, totalValue) ==
    [totalValue |-> FmtUsd(totalValue),
     weightedAPY |-> WeightedAPY(pf, totalValue),
     avgRiskScore |-> AvgRiskScore(pf),
     diversificationScore |-> DiversificationScore(pf, totalValue),
     positionCount |-> Len(pf.positions)]

calculatePortfolioMetrics(pf) == MetricsOf(pf, TotalValue(pf))

\* calculatePortfolioMetrics(portfolio) called on the inputs
DoCalculatePortfolioMetrics ==
    /\ pc = "idle"
    /\ res = NoResult
    /\ res' = [op |-> "calculatePortfolioMetrics",
               val |-> calculatePortfolioMetrics(portfolio)]
    /\ UNCHANGED <<Inputs, pc, calls, rebalanceAnalysis>>

(***************************************************************************)
(* SpecMetrics: calculatePortfolioMetrics over portfolios of up to three   *)
(* positions, empty and zero-valued ones included                          *)
(***************************************************************************)
MaxPositionsM == 3

AmountsM == {0, 2000, 5000, 6000}

\* a position as first stored (initial yield only) and one with current readings
PositionsM ==
    [protocol : {"Lido"}, chain : {"Ethereum"}, symbol : {"stETH"}, amountUSD : AmountsM,
     currentAPY : {0}, initialAPY : {4000},
     currentRiskScore : {0}, initialRiskScore : {0}]
    \cup
    [protocol : {"Aave"}, chain : {"Ethereum"}, symbol : {"aUSDC"}, amountUSD : {5000},
     currentAPY : {5000}, initialAPY : {4000},
     currentRiskScore : {300}, initialRiskScore : {200}]

InitMetrics ==
    /\ thresholds = Constructor(NoConfig)
    /\ now \in Clock
    /\ portfolio \in [positions : SeqUpTo(PositionsM, MaxPositionsM),
                      lastRebalanceDate : {NoDate},
                      targetRiskTolerance : {"medium"}]
    /\ marketPools = <<>>
    /\ userPreferences \in [riskTolerance : {"undefined"}]
    /\ Idle

NextMetrics == DoCalculatePortfolioMetrics

SpecMetrics == InitMetrics /\ [][NextMetrics]_vars

\* sum, sum of squares and maximum of a sequence of position values
RECURSIVE C15_Sum(_)
C15_Sum(amounts) ==
    IF amounts = <<>> THEN 0 ELSE C15_Sum(Tail(amounts)) + Head(amounts)

RECURSIVE C15_SumSq(_)
C15_SumSq(amounts) ==
    IF amounts = <<>> THEN 0
    ELSE C15_SumSq(Tail(amounts)) + Head(amounts) * Head(amounts)

RECURSIVE C15_Max(_)
C15_Max(amounts) ==
    IF amounts = <<>> THEN 0
    ELSE IF Head(amounts) > C15_Max(Tail(amounts)) THEN Head(amounts)
    ELSE C15_Max(Tail(amounts))

\* values are compared in hundreds of dollars
C15_Hundreds(amounts) == [i \in 1..Len(amounts) |-> amounts[i] \div 100]

C15_Amounts(positions) ==
    C15_Hundreds([i \in 1..Len(positions) |-> positions[i].amountUSD])

\* the position-value sequences with positive total value, largest value first
\* (the score does not depend on the order of the positions)
C15_Others ==
    {C15_Hundreds(a) :
        a \in {b \in SeqUpTo(AmountsM, MaxPositionsM) :
                  /\ C15_Sum(b) > 0
                  /\ \A i \in 1..(Len(b) - 1) : b[i] >= b[i + 1]}}

\* the maximum share of a is larger than that of b
C15_MoreConcentrated(a, b) == C15_Max(a) * C15_Sum(b) > C15_Max(b) * C15_Sum(a)

\* the sum of squared shares of a is larger than that of b
C15_LargerHerfindahl(a, b) ==
    C15_SumSq(a) * C15_Sum(b) * C15_Sum(b) > C15_SumSq(b) * C15_Sum(a) * C15_Sum(a)

\* the diversification score of a portfolio with the given position values
C15_ScoreOf(a) ==
    LET pf == [positions |-> [i \in 1..Len(a) |-> [amountUSD |-> a[i] * 100]]]
    IN  DiversificationScore(pf, TotalValue(pf))

\* C15 as stated: of two portfolios with positive total value, the one with the
\* larger maximum share always has the strictly smaller diversification score.
C15_Original ==
    (res.op = "calculatePortfolioMetrics"
         /\ C15_Sum(C15_Amounts(portfolio.positions)) > 0) =>
        \A a \in C15_Others :
            C15_MoreConcentrated(a, C15_Amounts(portfolio.positions)) =>
                RLt(C15_ScoreOf(a), res.val.diversificationScore)

\* C15, amended: for positive total value the diversification score lies in
\* [0, 10]; of two portfolios the one with the larger sum of squared value shares
\* has the strictly smaller score; and of two portfolios of at most two
\* positions the one with the larger maximum share has the strictly smaller
\* score.
C15_ScoreDecreasesWithHerfindahl ==
    (res.op = "calculatePortfolioMetrics"
         /\ C15_Sum(C15_Amounts(portfolio.positions)) > 0) =>
        LET mine == C15_Amounts(portfolio.positions)
            score == res.val.diversificationScore
        IN  /\ RGe(score, Num(0))
            /\ RLe(score, Num(10))
            /\ \A a \in C15_Others :
                  /\ C15_LargerHerfindahl(a, mine) => RLt(C15_ScoreOf(a), score)
                  /\ (Len(a) <= 2 /\ Len(mine) <= 2 /\ C15_MoreConcentrated(a, mine))
                         => RLt(C15_ScoreOf(a), score)

\* an even two-way split scores 5.0 while the more concentrated 6000/2000/2000
\* portfolio scores 5.6
C15_Witness ==
    /\ res.op = "calculatePortfolioMetrics"
    /\ C15_Amounts(portfolio.positions) = <<50, 50>>
    /\ res.val.diversificationScore = Num(5)
    /\ C15_MoreConcentrated(<<60, 20, 20>>, <<50, 50>>)
    /\ C15_ScoreOf(<<60, 20, 20>>) = R(28, 5)

\* C16: metrics computation on a portfolio with zero positions or zero total
\* value ends in an explicit error; it never returns a result containing NaN or
\* Infinity for weighted yield, average risk or diversification score.
C16_EmptyIsError ==
    (res.op = "calculatePortfolioMetrics"
         /\ C15_Sum(C15_Amounts(portfolio.positions)) = 0) =>
        /\ IsFinite(res.val.weightedAPY)
        /\ IsFinite(res.val.avgRiskScore)
        /\ IsFinite(res.val.diversificationScore)

(***************************************************************************)
(* StakingOrchestrator: applying a rebalance plan to a copy of a portfolio *)
(* and simulating its effect.  The portfolio argument and the copy are two *)
(* objects in memory: input is the positions array of the argument, output *)
(* that of the copy, and shared says whether they are one and the same     *)
(* array, in which case a write through one is seen through the other.     *)
(***************************************************************************)
\* variant: { ...portfolio }, a copy whose positions array is the argument's
DeepCopy_Shallow(pf) == [value |-> pf, shared |-> TRUE]

\* JSON.parse(JSON.stringify(portfolio)): the portfolio came from the backend as
\* JSON, so every field survives; the result is built from fresh objects
DeepCopy(pf) ==
    [value |-> [pf EXCEPT !.positions = [i \in 1..Len(pf.positions) |-> pf.positions[i]]],
     shared |-> FALSE]

\* variant: actions of every type are applied
IsRebalance_AnyType(action) == TRUE

\* action.action === 'rebalance'
IsRebalance(action) == action.action = "rebalance"

\* newPortfolio.positions.findIndex(p => p.protocol === action.from.protocol &&
\* p.chain === action.from.chain): the first index, 0 for -1
FindPosition(positions, from) ==
    LET hits == {i \in 1..Len(positions) :
                    positions[i].protocol = from.protocol /\ positions[i].chain = from.chain}
    IN  IF hits = {} THEN 0 ELSE CHOOSE i \in hits : \A j \in hits : i <= j

\* the object literal assigned to newPortfolio.positions[oldPosIndex]; fields it
\* does not set are absent (0), "" is an absent symbol, a yield that parseFloat
\* cannot read is NaN and counts as absent wherever it is read with ||
NewPosition(old, action) ==
    [protocol |-> action.to.protocol,
     chain |-> action.to.chain,
     symbol |-> IF action.to.symbol # "" THEN action.to.symbol ELSE action.from.symbol,
     amountUSD |-> old.amountUSD,
     currentAPY |-> IF IsFinite(ParseFloat(action.to.apy))
                    THEN (ParseFloat(action.to.apy)[1] * 1000) \div ParseFloat(action.to.apy)[2]
                    ELSE 0,
     initialAPY |-> 0,
     currentRiskScore |-> IF action.to.riskScore # 0 THEN action.to.riskScore ELSE 500,
     initialRiskScore |-> 0]

\* variant: the old position is removed and the new one added at the end
ReplacePosition_RemoveAppend(positions, k, position) ==
    Append(SubSeq(positions, 1, k - 1) \o SubSeq(positions, k + 1, Len(positions)),
           position)

\* newPortfolio.positions[oldPosIndex] = position
ReplacePosition(positions, k, position) == [positions EXCEPT ![k] = position]

\* if (oldPosIndex !== -1) { ... }: the write goes to the copy's array, and to the
\* argument's when they are the same array
ApplyAt(mem, action, oldPosIndex) ==
    IF oldPosIndex # 0
    THEN [mem EXCEPT
             !.output = ReplacePosition(mem.output, oldPosIndex,
                                        NewPosition(mem.output[oldPosIndex], action)),
             !.input = IF mem.shared
                       THEN ReplacePosition(mem.output, oldPosIndex,
                                            NewPosition(mem.output[oldPosIndex], action))
                       ELSE @]
    ELSE mem

\* one iteration of the loop over the plan's actions
ApplyAction(mem, action) ==
    IF IsRebalance(action)
    THEN ApplyAt(mem, action, FindPosition(mem.output, action.from))
    ELSE mem

\* for (const action of rebalancePlan.actions || []): a plan without actions is
\* a plan with the empty list
RECURSIVE ApplyActions(_, _)
ApplyActions(mem, actions) ==
    IF actions = <<>> THEN mem
    ELSE ApplyActions(ApplyAction(mem, Head(actions)), Tail(actions))

\* the argument as the call leaves it, the portfolio returned, and whether the
\* two share their positions array
PlanResult(pf, copy, mem) ==
    [portfolio |-> [pf EXCEPT !.positions = mem.input],
     newPortfolio |-> [copy.value EXCEPT !.positions = mem.output],
     shared |-> copy.shared]

PlanOn(pf, copy, plan) ==
    PlanResult(pf, copy,
               ApplyActions([input |-> pf.positions,
                             output |-> copy.value.positions,
                             shared |-> copy.shared],
                            plan.actions))

applyRebalancePlan(pf, plan) == PlanOn(pf, DeepCopy(pf), plan)

\* variant: a projected yield equal to the current one is enough to proceed
Recommendation_AtLeast(projectedMetrics, currentMetrics) ==
    IF RGe(projectedMetrics.weightedAPY, currentMetrics.weightedAPY)
    THEN "Proceed" ELSE "Review carefully"

\* projectedMetrics.weightedAPY > currentMetrics.weightedAPY ? 'Proceed' : 'Review carefully'
Recommendation(projectedMetrics, currentMetrics) ==
    IF RGt(projectedMetrics.weightedAPY, currentMetrics.weightedAPY)
    THEN "Proceed" ELSE "Review carefully"

\* the object returned by simulateRebalancing
SimulationOf(currentMetrics, projectedMetrics) ==
    [current |-> currentMetrics,
     projected |-> projectedMetrics,
     changes |->
         [apyChange |-> FmtPct(RSub(projectedMetrics.weightedAPY,
                                    currentMetrics.weightedAPY)),
          riskChange |-> ToFixed2(RSub(projectedMetrics.avgRiskScore,
                                       currentMetrics.avgRiskScore)),
          diversificationChange |-> RSub(projectedMetrics.diversificationScore,
                                         currentMetrics.diversificationScore)],
     recommendation |-> Recommendation(projectedMetrics, currentMetrics)]

\* simulateRebalancing once the portfolio has been fetched
simulateRebalancing(pf, plan) ==
    SimulationOf(calculatePortfolioMetrics(pf),
                 calculatePortfolioMetrics(applyRebalancePlan(pf, plan).newPortfolio))

(***************************************************************************)
(* SpecPlan and SpecSimulate: plans of up to two actions applied to, and   *)
(* plans of up to one action simulated on, portfolios of up to two         *)
(* positions                                                               *)
(***************************************************************************)
MaxPositionsL == 2

MaxActionsL == 2

\* sources: two that can match a position, one that differs from a position's
\* protocol in case only
FromsL == [protocol : {"Lido", "Aave", "lido"}, chain : {"Ethereum"}, symbol : {"stETH"}]

\* targets: as a suggestion names them (yield as text, no symbol, no risk score)
\* and with every field given
TosL ==
    {[protocol |-> "Frax", chain |-> "Ethereum", symbol |-> "",
      apy |-> FmtPct(Num(8)), riskScore |-> 0],
     [protocol |-> "Aave", chain |-> "Ethereum", symbol |-> "aUSDC",
      apy |-> FmtPct(Num(4)), riskScore |-> 200]}

ActionsL ==
    [action : {"rebalance"}, from : FromsL, to : TosL]
    \cup
    [action : {"diversify"},
     from : {[protocol |-> "Lido", chain |-> "Ethereum", symbol |-> "stETH"]},
     to : {[protocol |-> "Frax", chain |-> "Ethereum", symbol |-> "",
            apy |-> FmtPct(Num(8)), riskScore |-> 0]}]

PlansL == [actions : SeqUpTo(ActionsL, MaxActionsL)]

InitPlan ==
    /\ thresholds = Constructor(NoConfig)
    /\ now \in Clock
    /\ portfolio \in [positions : SeqUpTo(PositionsM, MaxPositionsL),
                      lastRebalanceDate : {NoDate},
                      targetRiskTolerance : {"medium"}]
    /\ marketPools = <<>>
    /\ userPreferences \in [riskTolerance : {"undefined"}]
    /\ Idle

\* applyRebalancePlan(portfolio, rebalancePlan) called on the portfolio with some
\* plan; the result records the arguments of the call
DoApplyRebalancePlan ==
    /\ pc = "idle"
    /\ res = NoResult
    /\ \E plan \in PlansL :
          /\ portfolio' = applyRebalancePlan(portfolio, plan).portfolio
          /\ res' = [op |-> "applyRebalancePlan",
                     portfolio |-> portfolio,
                     plan |-> plan,
                     val |-> applyRebalancePlan(portfolio, plan).newPortfolio,
                     shared |-> applyRebalancePlan(portfolio, plan).shared]
    /\ UNCHANGED <<thresholds, now, marketPools, userPreferences, pc, calls,
                   rebalanceAnalysis>>

NextPlan == DoApplyRebalancePlan

SpecPlan == InitPlan /\ [][NextPlan]_vars

MaxActionsU == 1

\* the actions of SpecPlan and one that moves a Lido position to a target of
\* yield 4.5
ActionsU ==
    ActionsL
    \cup
    [action : {"rebalance"},
     from : {[protocol |-> "Lido", chain |-> "Ethereum", symbol |-> "stETH"]},
     to : {[protocol |-> "Frax", chain |-> "Ethereum", symbol |-> "",
            apy |-> FmtPct(R(9, 2)), riskScore |-> 0]}]

PlansU == [actions : SeqUpTo(ActionsU, MaxActionsU)]

\* the positions of SpecMetrics and one whose current yield is 3.2
PositionsU ==
    PositionsM
    \cup
    [protocol : {"Lido"}, chain : {"Ethereum"}, symbol : {"stETH"}, amountUSD : {5000},
     currentAPY : {3200}, initialAPY : {0},
     currentRiskScore : {0}, initialRiskScore : {0}]

InitSimulate ==
    /\ thresholds = Constructor(NoConfig)
    /\ now \in Clock
    /\ portfolio \in [positions : SeqUpTo(PositionsU, MaxPositionsL),
                      lastRebalanceDate : {NoDate},
                      targetRiskTolerance : {"medium"}]
    /\ marketPools = <<>>
    /\ userPreferences \in [riskTolerance : {"undefined"}]
    /\ Idle

\* simulateRebalancing(portfolioId, rebalancePlan): the portfolio is fetched from
\* the backend, which may fail, and the simulation computed on it
DoSimulateRebalancing ==
    /\ pc = "idle"
    /\ res = NoResult
    /\ \E ok \in BOOLEAN :
          IF ok
          THEN \E plan \in PlansU :
                  res' = [op |-> "simulateRebalancing",
                          plan |-> plan,
                          val |-> simulateRebalancing(portfolio, plan)]
          ELSE res' = [op |-> "simulateRebalancing throws",
                       error |-> "Failed to fetch portfolio"]
    /\ UNCHANGED <<Inputs, pc, calls, rebalanceAnalysis>>

NextSimulate == DoSimulateRebalancing

SpecSimulate == InitSimulate /\ [][NextSimulate]_vars

\* C17: applyRebalancePlan never mutates the portfolio it is given: after the
\* call, for any plan, the input portfolio's positions (count, order and every
\* field) are exactly as before, and the returned portfolio shares no mutable
\* state with the input.
C17_InputUntouched ==
    res.op = "applyRebalancePlan" =>
        /\ portfolio = res.portfolio
        /\ ~res.shared

\* a plan replaced a position in the returned portfolio
C17_Witness ==
    /\ res.op = "applyRebalancePlan"
    /\ Len(res.plan.actions) > 0
    /\ \E i \in 1..Len(res.val.positions) :
          /\ res.val.positions[i] # res.portfolio.positions[i]
          /\ portfolio.positions[i] = res.portfolio.positions[i]

\* the action's source names a position of the portfolio
C18_SourceFound(action, positions) ==
    \E i \in 1..Len(positions) :
        /\ positions[i].protocol = action.from.protocol
        /\ positions[i].chain = action.from.chain

\* every action is of another type than 'rebalance' or has a source that matches
\* no position
C18_NothingToApply(plan, positions) ==
    \A j \in 1..Len(plan.actions) :
        \/ plan.actions[j].action # "rebalance"
        \/ ~C18_SourceFound(plan.actions[j], positions)

\* C18: a plan action whose source (protocol, chain) matches no position, and any
\* action whose type is not 'rebalance', is ignored without error: a plan made
\* only of such actions, or with no actions, returns a portfolio equal to the
\* original, so projected metrics equal current metrics.
C18_IgnoredActions ==
    (res.op = "applyRebalancePlan"
         /\ C18_NothingToApply(res.plan, res.portfolio.positions)) =>
        /\ res.val = res.portfolio
        /\ calculatePortfolioMetrics(res.val) = calculatePortfolioMetrics(res.portfolio)

\* a plan of a 'diversify' action whose source is a position and a 'rebalance'
\* action whose source differs from that position in case only
C18_Witness ==
    /\ res.op = "applyRebalancePlan"
    /\ Len(res.plan.actions) = 2
    /\ res.plan.actions[1].action = "diversify"
    /\ C18_SourceFound(res.plan.actions[1], res.portfolio.positions)
    /\ res.plan.actions[2].action = "rebalance"
    /\ res.plan.actions[2].from.protocol = "lido"
    /\ res.val = res.portfolio

\* C19: the returned portfolio has the same number of positions as the input and
\* the position at each index has the same value as the input position at that
\* index, so total value is unchanged; positions not matched by any action are
\* returned field-for-field unchanged.
C19_ValuesKept ==
    res.op = "applyRebalancePlan" =>
        /\ Len(res.val.positions) = Len(res.portfolio.positions)
        /\ \A i \in 1..Len(res.portfolio.positions) :
              /\ res.val.positions[i].amountUSD = res.portfolio.positions[i].amountUSD
              /\ (\A j \in 1..Len(res.plan.actions) :
                      \/ res.plan.actions[j].action # "rebalance"
                      \/ res.plan.actions[j].from.protocol
                             # res.portfolio.positions[i].protocol
                      \/ res.plan.actions[j].from.chain
                             # res.portfolio.positions[i].chain)
                 => res.val.positions[i] = res.portfolio.positions[i]
        /\ TotalValue(res.val) = TotalValue(res.portfolio)

\* two positions of different value: the first is moved twice (the second action
\* names the target of the first), the second is not matched
C19_Witness ==
    /\ res.op = "applyRebalancePlan"
    /\ Len(res.portfolio.positions) = 2
    /\ res.portfolio.positions[1].amountUSD # res.portfolio.positions[2].amountUSD
    /\ res.portfolio.positions[1].protocol = "Lido"
    /\ res.portfolio.positions[2].protocol = "Lido"
    /\ Len(res.plan.actions) = 2
    /\ res.plan.actions[1].from.protocol = "Lido"
    /\ res.plan.actions[1].to.protocol = "Aave"
    /\ res.plan.actions[2].from.protocol = "Aave"
    /\ res.val.positions[1].protocol = "Frax"
    /\ res.val.positions[2] = res.portfolio.positions[2]

\* C20: simulateRebalancing returns recommendation 'Proceed' iff the projected
\* weighted yield is strictly greater than the current weighted yield, and
\* 'Review carefully' otherwise (including when they are equal), regardless of
\* how average risk or diversification change.
C20_ProceedIffYieldRises ==
    res.op = "simulateRebalancing" =>
        /\ res.val.recommendation \in {"Proceed", "Review carefully"}
        /\ res.val.recommendation = "Proceed"
               <=> RGt(res.val.projected.weightedAPY, res.val.current.weightedAPY)

\* the plan lowers the average risk and leaves the weighted yield as it was: the
\* recommendation is 'Review carefully'
C20_Witness ==
    /\ res.op = "simulateRebalancing"
    /\ IsFinite(res.val.current.weightedAPY)
    /\ res.val.projected.weightedAPY = res.val.current.weightedAPY
    /\ RLt(res.val.projected.avgRiskScore, res.val.current.avgRiskScore)
    /\ res.val.recommendation = "Review carefully"

\* the sole position has weighted yield 3.2 and the plan replaces it with a target
\* of yield 4.5
C21_Scenario ==
    /\ res.op = "simulateRebalancing"
    /\ Len(portfolio.positions) = 1
    /\ res.val.current.weightedAPY = R(16, 5)
    /\ res.val.projected.weightedAPY = R(9, 2)

\* C21: when simulateRebalancing replaces the sole position of a portfolio whose
\* weighted yield is 3.2 with a target of yield 4.5, the reported apyChange is the
\* signed two-decimal string "+1.30%" and the recommendation is "Proceed".
C21_SignedChange ==
    C21_Scenario =>
        /\ res.val.changes.apyChange.num = R(13, 10)
        /\ res.val.changes.apyChange.unit = "%"
        /\ LeadingSign(res.val.changes.apyChange) = "+"
        /\ res.val.recommendation = "Proceed"

(***************************************************************************)
(* SpecScenario: analyzePortfolio on a single position whose pool has lost *)
(* yield, in a market of that pool and one better pool                     *)
(***************************************************************************)
PositionsC(t) ==
    [protocol : {"OldProtocol"}, chain : {"Ethereum"}, amountUSD : {1000, 5000},
     initialAPY : {3200, 5000}, initialRiskScore : {0}, entryDate : {t - Days(10)}]

OwnPoolsC ==
    [protocol : {"oldprotocol"}, chain : {"ethereum"}, apy : {2000, 3200}, tvl : {100},
     risk : {NoRisk, [score |-> 500, level |-> "medium"]}]

OtherPoolsC ==
    [protocol : {"lido"}, chain : {"ethereum"}, apy : {4500, 9000}, tvl : {14000},
     risk : {[score |-> 200, level |-> "low"]}]

InitScenario ==
    /\ thresholds = Constructor(NoConfig)
    /\ now \in Clock
    /\ portfolio \in [positions : {<<p>> : p \in PositionsC(now)},
                      lastRebalanceDate : {NoDate, now - Days(40)},
                      targetRiskTolerance : {"medium"}]
    /\ marketPools \in {<<own, other>> : own \in OwnPoolsC, other \in OtherPoolsC}
    /\ userPreferences \in [riskTolerance : {"undefined", "low"}]
    /\ Idle

NextScenario == DoAnalyzePortfolio

SpecScenario == InitScenario /\ [][NextScenario]_vars

\* the position (OldProtocol, Ethereum, value 5000, initial yield 5.0) whose pool
\* yields 3.2, and Lido at yield 4.5 with risk 2.0 'low'
C22_Scenario ==
    /\ res.op = "analyzePortfolio"
    /\ portfolio.positions[1].amountUSD = 5000
    /\ portfolio.positions[1].initialAPY = 5000
    /\ marketPools[1].apy = 3200
    /\ marketPools[2].apy = 4500

\* C22: in the scenario, with default thresholds, the apy_change trigger fires
\* (36% > 15) contributing 3 points, shouldRebalance is true, the position is not
\* flagged as an underperformer, and the suggestion list contains no rebalance
\* suggestion.
C22_TriggerWithoutUnderperformer ==
    C22_Scenario =>
        /\ AvgMarketAPY(marketPools) = R(77, 20)
        /\ \E i \in 1..Len(res.val.triggers) :
              /\ res.val.triggers[i].type = "apy_change"
              /\ res.val.triggers[i].details.maxChange = Num(36)
        /\ ApyScore(checkAPYChanges(thresholds, portfolio, marketPools)) = 3
        /\ res.val.shouldRebalance
        /\ identifyUnderperformers(portfolio, marketPools) = <<>>
        /\ \A j \in 1..Len(res.val.suggestions) :
              res.val.suggestions[j].action # "rebalance"

\* the scenario with the pool unassessed, no last rebalance and no preference
C22_Witness ==
    /\ C22_Scenario
    /\ marketPools[1].risk = NoRisk
    /\ portfolio.lastRebalanceDate = NoDate
    /\ userPreferences.riskTolerance = "undefined"
    /\ res.val.shouldRebalance

(***************************************************************************)
(* SpecMissing: checkTriggers over positions that lack their initial yield *)
(* or their entry date                                                     *)
(***************************************************************************)
MaxPositionsG == 2

PositionsG(t) ==
    [protocol : {"Lido"}, chain : {"Ethereum"}, amountUSD : {1000},
     initialAPY : {0, 4000}, initialRiskScore : {0},
     entryDate : {NoDate, t - Days(45)}]

MarketsG ==
    {<<>>,
     <<[protocol |-> "lido", chain |-> "ethereum", apy |-> 5200, tvl |-> 1000,
        risk |-> [score |-> 300, level |-> "low"]]>>,
     <<[protocol |-> "frax", chain |-> "ethereum", apy |-> 4000, tvl |-> 1000,
        risk |-> [score |-> 300, level |-> "low"]]>>}

InitMissing ==
    /\ thresholds = Constructor(NoConfig)
    /\ now \in Clock
    /\ portfolio \in [positions : SeqUpTo(PositionsG(now), MaxPositionsG),
                      lastRebalanceDate : {NoDate, now - Days(10)},
                      targetRiskTolerance : {"medium"}]
    /\ marketPools \in MarketsG
    /\ userPreferences = [riskTolerance |-> "undefined"]
    /\ Idle

NextMissing == DoCheckTriggers

SpecMissing == InitMissing /\ [][NextMissing]_vars

\* a computation of checkTriggers needs a field that a position lacks: the initial
\* yield (read by the yield-change check when the position's pool is found, by
\* the better-opportunity check when it is not), or the entry date when there is
\* no last-rebalance date
C23_RequiredFieldMissing ==
    \E i \in 1..Len(portfolio.positions) :
        \/ portfolio.positions[i].initialAPY = 0
        \/ portfolio.lastRebalanceDate = NoDate
               /\ portfolio.positions[i].entryDate = NoDate

\* C23: when a position lacks a required field, the computation that needs the
\* field ends in an error reported to the caller; it never completes by silently
\* substituting zero or by skipping the position.
C23_MissingFieldIsError ==
    (res.op = "checkTriggers" /\ C23_RequiredFieldMissing) =>
        "error" \in DOMAIN res

(***************************************************************************)
(* SpecImpact: analyzePortfolio on a position that underperforms, over     *)
(* market yields with two and with three fraction digits                   *)
(***************************************************************************)
PositionsE(t) ==
    [protocol : {"Lido"}, chain : {"Ethereum"}, amountUSD : {1000, 5000, 20000},
     initialAPY : {4000}, initialRiskScore : {0}, entryDate : {t - Days(10)}]

OwnPoolsE ==
    [protocol : {"lido"}, chain : {"ethereum"}, apy : {2000, 2004, 2125}, tvl : {14000},
     risk : {[score |-> 300, level |-> "low"]}]

OtherPoolsE ==
    [protocol : {"frax"}, chain : {"ethereum"}, apy : {8000, 8125}, tvl : {200},
     risk : {[score |-> 300, level |-> "low"]}]

InitImpact ==
    /\ thresholds = Constructor(NoConfig)
    /\ now \in Clock
    /\ portfolio \in [positions : SeqUpTo(PositionsE(now), 1),
                      lastRebalanceDate : {NoDate, now - Days(40)},
                      targetRiskTolerance : {"medium"}]
    /\ marketPools \in {<<own, other>> : own \in OwnPoolsE, other \in OtherPoolsE}
    /\ userPreferences \in [riskTolerance : {"undefined", "low"}]
    /\ Idle

NextImpact == DoAnalyzePortfolio

SpecImpact == InitImpact /\ [][NextImpact]_vars

\* value * initialYield / 100 summed over the positions
C24_CurrentReturn(positions) ==
    SumOf([i \in 1..Len(positions) |->
              R(positions[i].amountUSD * positions[i].initialAPY, 100000)])

\* value * (targetYield - sourceCurrentYield) / 100 of the suggestion made for an
\* underperformer, from the yields of the pools themselves
C24_ExactDelta(u, alt) ==
    R(u.position.amountUSD * (alt.apy - u.currentPool.apy), 100000)

\* the sum of the exact deltas over the underperformers that are paired
C24_ExactGain(ups, alts) ==
    SumOf([i \in 1..Len(ups) |->
              IF FindBetterOption(alts, ups[i]) # 0
              THEN C24_ExactDelta(ups[i], alts[FindBetterOption(alts, ups[i])])
              ELSE Num(0)])

\* C24: estimateImpact computes the current annual return as the sum over
\* positions of value * initialYield / 100, and the projected annual return as
\* that total plus, for each rebalance suggestion, value * (targetYield -
\* sourceCurrentYield) / 100 using the exact (unrounded) yields; with no rebalance
\* suggestion the projected return equals the current return and the additional
\* return is zero.
C24_ExactYields ==
    (res.op = "analyzePortfolio" /\ res.val.shouldRebalance) =>
        LET current == C24_CurrentReturn(portfolio.positions)
            gain == C24_ExactGain(identifyUnderperformers(portfolio, marketPools),
                                  findBetterAlternatives(portfolio, marketPools,
                                                         userPreferences))
        IN  /\ res.val.estimatedImpact.currentAnnualReturn = FmtUsd(current)
            /\ res.val.estimatedImpact.projectedAnnualReturn = FmtUsd(RAdd(current, gain))
            /\ res.val.estimatedImpact.additionalReturn = FmtUsd(gain)

(***************************************************************************)
(* SpecOrder: checkTriggers over portfolios of positions that differ in    *)
(* protocol, initial yield and entry date                                  *)
(***************************************************************************)
MaxPositionsQ == 3

PositionsQ(t) ==
    [protocol : {"Lido", "Frax"}, chain : {"Ethereum"}, amountUSD : {1000},
     initialAPY : {4000}, initialRiskScore : {0}, entryDate : {t - Days(10)}]
    \cup
    [protocol : {"Lido", "Frax"}, chain : {"Ethereum"}, amountUSD : {1000},
     initialAPY : {5000}, initialRiskScore : {300}, entryDate : {t - Days(45)}]

MarketsQ ==
    {<<>>,
     <<[protocol |-> "lido", chain |-> "ethereum", apy |-> 5200, tvl |-> 1000,
        risk |-> [score |-> 300, level |-> "low"]],
       [protocol |-> "frax", chain |-> "ethereum", apy |-> 4000, tvl |-> 1000,
        risk |-> [score |-> 800, level |-> "high"]]>>,
     <<[protocol |-> "lido", chain |-> "ethereum", apy |-> 4000, tvl |-> 1000,
        risk |-> NoRisk],
       [protocol |-> "aave", chain |-> "ethereum", apy |-> 9000, tvl |-> 1000,
        risk |-> [score |-> 300, level |-> "low"]]>>}

InitOrder ==
    /\ thresholds = Constructor(NoConfig)
    /\ now \in Clock
    /\ portfolio \in [positions : SeqUpTo(PositionsQ(now), MaxPositionsQ),
                      lastRebalanceDate : {NoDate},
                      targetRiskTolerance : {"medium"}]
    /\ marketPools \in MarketsQ
    /\ userPreferences = [riskTolerance |-> "undefined"]
    /\ Idle

NextOrder == DoCheckTriggers

SpecOrder == InitOrder /\ [][NextOrder]_vars

\* the permutations of 1..n
C25_Permutations(n) ==
    {f \in [1..n -> 1..n] : \A i, j \in 1..n : f[i] = f[j] => i = j}

\* the portfolio with its positions rearranged
C25_Permuted(pf, f) ==
    [pf EXCEPT !.positions = [i \in 1..Len(pf.positions) |-> pf.positions[f[i]]]]

\* the fired trigger types with their severities
C25_Fired(verdict) ==
    {<<verdict.triggeredFactors[i].type, verdict.triggeredFactors[i].severity>> :
        i \in 1..Len(verdict.triggeredFactors)}

\* the two verdicts agree in all that the claim names
C25_SameVerdict(a, b) ==
    /\ a.shouldRebalance = b.shouldRebalance
    /\ C25_Fired(a) = C25_Fired(b)
    /\ a.severityScore = b.severityScore
    /\ a.severity = b.severity

\* C25: for any permutation of the positions, checkTriggers returns the same
\* shouldRebalance, the same set of fired trigger types with the same
\* per-trigger severities, the same severity score and the same aggregate
\* severity.
C25_OrderIrrelevant ==
    res.op = "checkTriggers" =>
        \A f \in C25_Permutations(Len(portfolio.positions)) :
            C25_SameVerdict(res.val,
                            checkTriggers(thresholds, now,
                                          C25_Permuted(portfolio, f), marketPools))

\* three positions, not all alike, whose yield changes differ in severity: one
\* above 25%, one between 15% and 25%
C25_Witness ==
    /\ res.op = "checkTriggers"
    /\ Len(portfolio.positions) = 3
    /\ portfolio.positions[1] # portfolio.positions[3]
    /\ \E i \in 1..Len(res.val.triggeredFactors) :
          /\ res.val.triggeredFactors[i].type = "apy_change"
          /\ res.val.triggeredFactors[i].severity = "high"
          /\ \E j \in 1..Len(res.val.triggeredFactors[i].details.changes) :
                RLe(res.val.triggeredFactors[i].details.changes[j].raw,
                    Num(HighApyChange))

(***************************************************************************)
(* The order of the collaborator calls in one run of checkRebalancing      *)
(* (SpecFlow)                                                              *)
(***************************************************************************)
\* the calls of a complete run that saves, in the order of the five steps
C26_FullRun ==
    <<"getPortfolioById", "collectAllData">>
    \o [k \in 1..Len(marketPools) |-> "assessRisk"]
    \o <<"analyzePortfolio", "saveRebalanceSuggestion">>

\* the calls made so far are the first calls of the complete run
C26_InOrder ==
    /\ Len(calls) <= Len(C26_FullRun)
    /\ calls = SubSeq(C26_FullRun, 1, Len(calls))

\* a failed run has thrown to the caller, and the step that failed was the last
C26_Propagated ==
    pc = "failed" =>
        /\ res.op = "checkRebalancing"
        /\ "error" \in DOMAIN res
        /\ calls # <<>>
        /\ calls[Len(calls)] \in {"getPortfolioById", "saveRebalanceSuggestion"}

\* C26: in one checkRebalancing call the collaborators are invoked in the
\* fixed order portfolio fetch, market data collection, risk assessment of
\* every pool, analysis, then optionally save, each at most once; a failed
\* step throws to the caller, after which no step runs and none is retried.
C26_FixedOrderNoRetry ==
    /\ [](C26_InOrder /\ C26_Propagated)
    /\ [][pc = "failed" => (calls' = calls /\ pc' = pc)]_vars
    /\ [][Len(calls') >= Len(calls)]_vars

\* a run over two pools that failed in its last step, the save
C26_Witness ==
    /\ pc = "failed"
    /\ Len(marketPools) = 2
    /\ calls = C26_FullRun

(***************************************************************************)
(* The direction of the rebalance suggestions (SpecSuggest)                *)
(***************************************************************************)
\* C27: every rebalance suggestion of generateRebalanceSuggestions has a target
\* yield strictly greater than its source position's current yield, and its
\* target is never the source position's own (protocol, chain) pool.
C27_StrictlyBetterTarget ==
    res.op = "generateRebalanceSuggestions" =>
        \A i \in 1..Len(res.val) :
            res.val[i].action = "rebalance" =>
                /\ RGt(res.val[i].to.apy.num, res.val[i].from.currentAPY.num)
                /\ RGt(res.val[i].expectedImprovement.apyIncrease.num, Num(0))
                /\ ~SamePool(res.val[i].to, res.val[i].from)

(***************************************************************************)
(* The aggregate severity beside the severities of the fired triggers      *)
(* (SpecTriggers)                                                          *)
(***************************************************************************)
\* 'low' < 'medium' < 'high'
C28_Rank(severity) ==
    IF severity = "high" THEN 3 ELSE IF severity = "medium" THEN 2 ELSE 1

\* the severities of the fired triggers
C28_FiredSeverities ==
    {res.val.triggeredFactors[i].severity : i \in 1..Len(res.val.triggeredFactors)}

\* the number of fired triggers of severity 'high'
C28_HighCount ==
    Cardinality({i \in 1..Len(res.val.triggeredFactors) :
                    res.val.triggeredFactors[i].severity = "high"})

\* C28 as stated: the aggregate severity returned by checkTriggers is never
\* lower than the severity of any fired trigger.
C28_Original ==
    TriggersReturned =>
        \A sev \in C28_FiredSeverities : C28_Rank(res.val.severity) >= C28_Rank(sev)

\* C28 amended: the aggregate severity follows the score alone; a fired trigger
\* of severity 'high' makes the aggregate at least 'medium', two of them make
\* it 'high', and the aggregate is never higher than 'medium' unless the
\* fired triggers sum to 6 points.
C28_AggregateFollowsScore ==
    TriggersReturned =>
        /\ "high" \in C28_FiredSeverities => C28_Rank(res.val.severity) >= 2
        /\ C28_HighCount >= 2 => res.val.severity = "high"
        /\ res.val.severity = "high" => res.val.severityScore >= HighSeverityScore

\* one trigger of severity 'high' fired alone: the aggregate is 'medium'
C28_Witness ==
    /\ TriggersReturned
    /\ Len(res.val.triggeredFactors) = 1
    /\ res.val.triggeredFactors[1].severity = "high"
    /\ res.val.severity = "medium"

(***************************************************************************)
(* The risk-tolerance filter across tolerances (SpecAlt)                   *)
(***************************************************************************)
\* the pools of the market that pass the filter under a tolerance
C29_Passing(riskTolerance) ==
    {marketPools[k] : k \in {j \in 1..Len(marketPools) :
                                IsSuitable(marketPools[j], riskTolerance)}}

\* the pools findBetterAlternatives returns under a tolerance, without their rank
C29_Returned(riskTolerance) ==
    LET alts == findBetterAlternatives(portfolio, marketPools,
                                       [riskTolerance |-> riskTolerance])
    IN  {[protocol |-> alts[k].protocol, chain |-> alts[k].chain] : k \in 1..Len(alts)}

\* C29: the risk-tolerance policy of findBetterAlternatives is monotone: every
\* pool that passes under 'low' passes under 'medium', and every pool that
\* passes under 'medium' passes under 'high'.
C29_MonotoneInTolerance ==
    res.op = "findBetterAlternatives" =>
        /\ C29_Passing("low") \subseteq C29_Passing("medium")
        /\ C29_Passing("medium") \subseteq C29_Passing("high")
        /\ Len(marketPools) <= TopAlternatives =>
              /\ C29_Returned("low") \subseteq C29_Returned("medium")
              /\ C29_Returned("medium") \subseteq C29_Returned("high")

(***************************************************************************)
(* The order of the actions of a plan (SpecPlan)                           *)
(***************************************************************************)
\* the plan with its actions in the opposite order
C30_Reversed(plan) ==
    [plan EXCEPT !.actions = [k \in 1..Len(plan.actions) |->
                                 plan.actions[Len(plan.actions) + 1 - k]]]

\* the index at which the k-th action of the plan replaces a position, 0 if it
\* replaces none
C30_ReplacedAt(pf, plan, k) ==
    LET copy == DeepCopy(pf)
        before == ApplyActions([input |-> pf.positions,
                                output |-> copy.value.positions,
                                shared |-> copy.shared],
                               SubSeq(plan.actions, 1, k - 1))
    IN  IF IsRebalance(plan.actions[k])
        THEN FindPosition(before.output, plan.actions[k].from)
        ELSE 0

\* C30: the result of applyRebalancePlan does not depend on the order of the
\* plan's actions: no action replaces a position produced by an earlier action
\* of the same plan, and the plan with its actions in another order gives the
\* same projected portfolio and metrics.
C30_OrderIndependent ==
    res.op = "applyRebalancePlan" =>
        /\ \A j, k \in 1..Len(res.plan.actions) :
              (j < k /\ C30_ReplacedAt(res.portfolio, res.plan, j) # 0) =>
                  C30_ReplacedAt(res.portfolio, res.plan, k)
                      # C30_ReplacedAt(res.portfolio, res.plan, j)
        /\ applyRebalancePlan(res.portfolio, C30_Reversed(res.plan)).newPortfolio = res.val
        /\ calculatePortfolioMetrics(
               applyRebalancePlan(res.portfolio, C30_Reversed(res.plan)).newPortfolio)
           = calculatePortfolioMetrics(res.val)

====
